---- MODULE Spec2Model ----
(***************************************************************************)
(* Provisioning orchestrator of statsclient (ESP-IDF firmware).            *)
(*                                                                         *)
(* Three execution contexts share the state below:                         *)
(*   - the HTTP handlers of the provisioning server (wifi_provisioning.c,  *)
(*     kept in src/main/internet_verification.h, second, tracing copy),    *)
(*   - the link / address / MQTT event callbacks,                          *)
(*   - the control loop app_state_machine_task (src/main/main.c).          *)
(*                                                                         *)
(* Strings of the program (ssid, password, tokens, certificates, IP        *)
(* addresses) are numbered 1..n; 0 stands for "key absent" / empty string. *)
(* Outcomes of the ESP-IDF calls the code branches on (nvs_open, nvs_set,  *)
(* scan, httpd_start, the HTTPS probe, ...) are inputs chosen with \E.     *)
(***************************************************************************)
EXTENDS Integers, Sequences, FiniteSets, TLC

\* ------------------------------------------------------------ bounds
NumValues == 1          \* distinct strings a client may submit per field
NumIps == 2             \* distinct addresses the DHCP server may assign
MaxMqttCount == 4       \* cap on mqtt_connect_retries (the code has none)

\* ------------------------------------------------ program constants
WIFI_SCAN_MAX_APS == 20
REASON_AUTH_FAIL == 15
REASON_HANDSHAKE_FIRST == 201
REASON_HANDSHAKE_LAST == 209
MAX_VERIFICATION_RETRIES == 2
MAX_MQTT_RETRIES == 3
HTTP_STATUS_OK == 200

Values == 1..NumValues
Ips == 1..NumIps

\* NVS keys of namespace "device_config"
ProvKeys == {"wifi_ssid", "wifi_pass", "device_id", "prov_token",
             "bearer_token", "provisioned"}
CertKeys == {"device_cert", "ca_cert"}
Keys == ProvKeys \cup CertKeys
EmptyStore == [k \in Keys |-> 0]

\* JSON members of the /provision body, in the order the handler tests them
RequiredFields == <<"ssid", "password", "device_id", "provisioning_token">>
FieldNames == {RequiredFields[i] : i \in 1..Len(RequiredFields)}
\* a member is absent (0), present but not a string (-1), or a string
FieldVals == {0, -1} \cup Values
Bodies == [FieldNames -> FieldVals]

\* disconnect reason codes delivered by the driver (boundaries of the set
\* tested by wifi_event_handler, and ordinary ones)
Reasons == {15, 200, 201, 209, 210}

\* numbers of access points a radio scan may report
ScanCounts == {3, 21}

VARIABLES
    nvs,                    \* NVS namespace: key -> value, 0 = absent
    s_httpd,                \* HTTP server handle is non-NULL
    s_provisioning_active,
    s_wifi_connected,
    s_sta_ip,               \* 0 = "" (zeroed buffer)
    s_cache_mutex,          \* the cache mutex has been created
    s_initial_scan_done,
    s_cached_network_count,
    radio,                  \* Wi-Fi driver: mode, started, station config, link
    s_app_state,
    pc,                     \* position of the control loop inside an iteration
    connection_attempted,
    verification_done,
    verification_retries,
    mqtt_connect_retries,
    s_mqtt_client,          \* MQTT client handle is non-NULL
    s_mqtt_connected,
    aborted,                \* an ESP_ERROR_CHECK failed: abort()
    submitted,              \* history: a submit succeeded and no clear-and-restart ran since
    was_reset,              \* history: a clear-and-restart has run since boot
    boot_opened,            \* history: app_main could open the store at the last boot
    tasks,                  \* task-level view: where each task is inside a call
    mutex_holder,           \* task-level view: the task that holds s_cache_mutex
    http_instances,         \* task-level view: HTTP servers started and not stopped
    probe_fail_run,         \* history: consecutive loop iterations whose probe failed
    last                    \* history: the operation of the last step and its result

provVars == <<nvs, s_httpd, s_provisioning_active, s_wifi_connected, s_sta_ip,
              s_cache_mutex, s_initial_scan_done, s_cached_network_count, radio>>
loopVars == <<s_app_state, pc, connection_attempted, verification_done,
              verification_retries, mqtt_connect_retries>>
mqttVars == <<s_mqtt_client, s_mqtt_connected>>
\* the variables of the boot history and of the task-level view
moreVars == <<boot_opened, tasks, mutex_holder, http_instances>>
vars == <<provVars, loopVars, mqttVars, aborted, submitted, was_reset, moreVars,
          probe_fail_run, last>>

\* ------------------------------------------------ provisioning module
\* the statics of wifi_provisioning.c and the driver state, as one record
M == [nvs |-> nvs, httpd |-> s_httpd, active |-> s_provisioning_active,
      connected |-> s_wifi_connected, ip |-> s_sta_ip, mutex |-> s_cache_mutex,
      scan_done |-> s_initial_scan_done, count |-> s_cached_network_count,
      radio |-> radio]

SetM(m) ==
    /\ nvs' = m.nvs
    /\ s_httpd' = m.httpd
    /\ s_provisioning_active' = m.active
    /\ s_wifi_connected' = m.connected
    /\ s_sta_ip' = m.ip
    /\ s_cache_mutex' = m.mutex
    /\ s_initial_scan_done' = m.scan_done
    /\ s_cached_network_count' = m.count
    /\ radio' = m.radio

Min(a, b) == IF a < b THEN a ELSE b

\* the outcomes of a call that is made only if cond holds
OutcomesIf(cond, S) == IF cond THEN S ELSE {CHOOSE x \in S : TRUE}

\* the driver before esp_wifi_init()
RadioOff == [init |-> FALSE, mode |-> "NULL", started |-> FALSE, ssid |-> 0,
             pass |-> 0, link |-> "idle"]

\* esp_wifi_stop(): the radio stops and any association is dropped
esp_wifi_stop(r) == [r EXCEPT !.started = FALSE, !.link = "idle"]

\* outcomes of one scan: mutex creation, the blocking scan, the number of
\* access points reported, the 5 s wait for the cache mutex
ScanOutcomes(mutex) ==
    {[res |-> r, n |-> 0] :
        r \in (IF mutex THEN {} ELSE {"nomem"}) \cup {"scan_failed", "lock_timeout"}}
    \cup {[res |-> "ok", n |-> n] : n \in ScanCounts}

\* mutation: the number reported by the driver is cached as it is
perform_wifi_scan_and_cache_uncapped(m, sc) ==
    IF sc.res = "nomem"
    THEN [m |-> m, ret |-> "ESP_ERR_NO_MEM"]
    ELSE LET m1 == [m EXCEPT !.mutex = TRUE]
         IN  IF sc.res = "scan_failed" THEN [m |-> m1, ret |-> "ESP_FAIL"]
             ELSE IF sc.res = "lock_timeout"
                  THEN [m |-> m1, ret |-> "ESP_ERR_TIMEOUT"]
                  ELSE [m |-> [m1 EXCEPT !.count = sc.n, !.scan_done = TRUE],
                        ret |-> "ESP_OK"]

\* The cache is the number of records kept and the records themselves; the
\* records are those of the scan that filled it, so that the count (3 from a
\* scan that saw 3 networks, 20 from one that saw 21) tells the snapshots apart.
perform_wifi_scan_and_cache(m, sc) ==
    IF sc.res = "nomem"
    THEN [m |-> m, ret |-> "ESP_ERR_NO_MEM"]
    ELSE LET m1 == [m EXCEPT !.mutex = TRUE]
             ap_count == Min(sc.n, WIFI_SCAN_MAX_APS)
         IN  IF sc.res = "scan_failed" THEN [m |-> m1, ret |-> "ESP_FAIL"]
             ELSE IF sc.res = "lock_timeout"
                  THEN [m |-> m1, ret |-> "ESP_ERR_TIMEOUT"]
                  ELSE [m |-> [m1 EXCEPT !.count = ap_count, !.scan_done = TRUE],
                        ret |-> "ESP_OK"]

\* wifi_init_ap(): APSTA mode, AP configured, radio started
wifi_init_ap(r) == [r EXCEPT !.init = TRUE, !.mode = "APSTA", !.started = TRUE]

\* outcomes of wifi_provisioning_start(): esp_netif_init / event loop
\* creation fail, an ESP_ERROR_CHECK in wifi_init_ap aborts, the scan,
\* httpd_start
StartOutcomes(mutex) ==
    {[init |-> i, scan |-> [res |-> "scan_failed", n |-> 0], httpd |-> FALSE] :
        i \in {"netif_failed", "loop_failed", "abort"}}
    \cup {[init |-> "ok", scan |-> sc, httpd |-> h] :
            sc \in ScanOutcomes(mutex), h \in BOOLEAN}

wifi_provisioning_start_body(m, o) ==
    IF o.init \in {"netif_failed", "loop_failed"}
    THEN [m |-> m, ret |-> "ESP_FAIL"]
    ELSE IF o.init = "abort" THEN [m |-> m, ret |-> "ABORT"]
    ELSE LET m1 == [m EXCEPT !.radio = wifi_init_ap(m.radio)]
             m2 == perform_wifi_scan_and_cache(m1, o.scan).m
         IN  IF ~o.httpd
             THEN [m |-> [m2 EXCEPT !.httpd = FALSE,
                                    !.radio = esp_wifi_stop(m2.radio)],
                   ret |-> "ESP_FAIL"]
             ELSE [m |-> [m2 EXCEPT !.httpd = TRUE, !.active = TRUE],
                   ret |-> "ESP_OK"]

\* mutation: the "already active" early return is missing
wifi_provisioning_start_unguarded(m, o) == wifi_provisioning_start_body(m, o)

wifi_provisioning_start(m, o) ==
    IF m.active THEN [m |-> m, ret |-> "ESP_OK"]
    ELSE wifi_provisioning_start_body(m, o)

wifi_provisioning_stop(m) ==
    IF ~m.active THEN m
    ELSE [m EXCEPT !.httpd = FALSE, !.scan_done = FALSE, !.count = 0,
                   !.active = FALSE]

\* mutation: a namespace that opens counts as provisioned
wifi_provisioning_is_provisioned_any(store, openOk) == openOk

\* nvs_open failing makes the device look unprovisioned
wifi_provisioning_is_provisioned(store, openOk) ==
    openOk /\ store["provisioned"] = 1

wifi_provisioning_clear_and_restart(m, openOk, o) ==
    LET m1 == [m EXCEPT !.httpd = FALSE, !.scan_done = FALSE, !.count = 0,
                        !.active = FALSE]
        m2 == IF openOk
              THEN [m1 EXCEPT !.nvs = [k \in Keys |->
                                        IF k \in ProvKeys THEN 0 ELSE m1.nvs[k]]]
              ELSE m1
        m3 == [m2 EXCEPT !.radio = esp_wifi_stop(m2.radio),
                         !.connected = FALSE, !.ip = 0]
    IN  wifi_provisioning_start(m3, o)

\* ------------------------------------------------------ POST /provision
\* points at which save_wifi_credentials can fail, in program order
SaveSteps == <<"open", "wifi_ssid", "wifi_pass", "device_id", "prov_token",
               "bearer_token", "provisioned", "commit">>
\* the failures exercised: before any write, after the first write, after
\* every credential write, and at the commit
SaveFails == {"open", "wifi_pass", "provisioned", "commit", "none"}
StepIndex(s) ==
    IF s = "none" THEN Len(SaveSteps) + 1
    ELSE CHOOSE i \in 1..Len(SaveSteps) : SaveSteps[i] = s

\* mutation: without a bearer token the provisioning token is stored in its place
save_wifi_credentials_token_as_bearer(store, ssid, password, device_id, prov_token, bearer, failAt) ==
    LET done(k) == StepIndex(k) < StepIndex(failAt)
        new == [k \in Keys |->
                  IF k = "wifi_ssid" /\ done(k) THEN ssid
                  ELSE IF k = "wifi_pass" /\ done(k) THEN password
                  ELSE IF k = "device_id" /\ done(k) THEN device_id
                  ELSE IF k = "prov_token" /\ done(k) THEN prov_token
                  ELSE IF k = "bearer_token" /\ done(k)
                       THEN (IF bearer > 0 THEN bearer ELSE prov_token)
                  ELSE IF k = "provisioned" /\ done(k) THEN 1
                  ELSE store[k]]
    IN  [nvs |-> new, err |-> IF failAt = "none" THEN "ESP_OK" ELSE "ESP_FAIL"]

\* bearer: -1 = NULL pointer, 0 = "", otherwise the token
save_wifi_credentials(store, ssid, password, device_id, prov_token, bearer, failAt) ==
    LET writesBearer == bearer > 0
        \* a failure injected at a step the call does not execute never happens
        fail == IF failAt = "bearer_token" /\ ~writesBearer THEN "none" ELSE failAt
        done(k) == StepIndex(k) < StepIndex(fail)
        new == [k \in Keys |->
                  IF k = "wifi_ssid" /\ done(k) THEN ssid
                  ELSE IF k = "wifi_pass" /\ done(k) THEN password
                  ELSE IF k = "device_id" /\ done(k) THEN device_id
                  ELSE IF k = "prov_token" /\ done(k) THEN prov_token
                  ELSE IF k = "bearer_token" /\ done(k) /\ writesBearer THEN bearer
                  ELSE IF k = "provisioned" /\ done(k) THEN 1
                  ELSE store[k]]
    IN  [nvs |-> new, err |-> IF fail = "none" THEN "ESP_OK" ELSE "ESP_FAIL"]

\* Authorization header: absent, longer than the 256 byte buffer, unreadable,
\* "Bearer <tok>" or a bare "<tok>" (tok = 0: nothing follows the prefix)
NoHeader == [kind |-> "none", tok |-> 0]
Headers ==
    {NoHeader, [kind |-> "too_long", tok |-> 1],
     [kind |-> "unreadable", tok |-> 1], [kind |-> "bearer", tok |-> 0]}
    \cup {[kind |-> k, tok |-> t] : k \in {"bearer", "raw"}, t \in Values}

BearerToken(h) ==
    IF h.kind \in {"bearer", "raw"} THEN h.tok ELSE -1

\* cJSON_IsString(cJSON_GetObjectItem(root, f))
IsString(body, f) == body[f] > 0

RECURSIVE MissingFirstOnly(_, _)
RECURSIVE MissingFrom(_, _)

\* mutation: only the first missing field is reported
MissingFirstOnly(body, i) ==
    IF i > Len(RequiredFields) THEN <<>>
    ELSE IF IsString(body, RequiredFields[i]) THEN MissingFirstOnly(body, i + 1)
         ELSE <<RequiredFields[i]>>

\* the names appended to missing_array, in the order of the four tests
MissingFrom(body, i) ==
    IF i > Len(RequiredFields) THEN <<>>
    ELSE (IF IsString(body, RequiredFields[i]) THEN <<>> ELSE <<RequiredFields[i]>>)
         \o MissingFrom(body, i + 1)

MissingFields(body) == MissingFrom(body, 1)

Response(code, err) ==
    [code |-> code, err |-> err, missing |-> <<>>, list |-> FALSE]

\* what the handler does on its paths, in program order
EffectsRejected == <<"respond">>
EffectsSaveFailed == <<"save", "respond">>
EffectsAccepted == <<"save", "respond", "stop">>

\* req: recv (httpd_req_recv > 0), json (cJSON_Parse succeeded), body, hdr,
\* printOk (cJSON_Print of the error object), saveFail
provision_handler(m, req) ==
    IF ~req.recv
    THEN [m |-> m, resp |-> Response(400, "invalid_request"),
          effects |-> EffectsRejected]
    ELSE IF ~req.json
    THEN [m |-> m, resp |-> Response(400, "invalid_json"),
          effects |-> EffectsRejected]
    ELSE LET missing == MissingFields(req.body) IN
      IF missing # <<>>
      THEN [m |-> m,
            resp |-> IF req.printOk
                     THEN [code |-> 400, err |-> "missing_fields",
                           missing |-> missing, list |-> TRUE]
                     ELSE Response(400, "missing_fields"),
            effects |-> EffectsRejected]
      ELSE LET saved == save_wifi_credentials(m.nvs, req.body["ssid"],
                            req.body["password"], req.body["device_id"],
                            req.body["provisioning_token"],
                            BearerToken(req.hdr), req.saveFail)
               m1 == [m EXCEPT !.nvs = saved.nvs]
           IN  IF saved.err # "ESP_OK"
               THEN [m |-> m1, resp |-> Response(500, "save_failed"),
                     effects |-> EffectsSaveFailed]
               ELSE [m |-> wifi_provisioning_stop(m1), resp |-> Response(200, "ok"),
                     effects |-> EffectsAccepted]

\* the k-th client submits the k-th ssid, password, device id and token
CompleteBodies == {[f \in FieldNames |-> k] : k \in Values}
\* bodies with a member missing: the missing members are all absent, or all
\* present with a value that is not a string
IncompleteBodies ==
    {b \in Bodies : /\ \E f \in FieldNames : b[f] <= 0
                    /\ \A f, g \in FieldNames : b[f] <= 0 /\ b[g] <= 0 => b[f] = b[g]}

Request(recv, json, body, hdr, printOk, saveFail) ==
    [recv |-> recv, json |-> json, body |-> body, hdr |-> hdr,
     printOk |-> printOk, saveFail |-> saveFail]

\* requests the handler rejects before it looks at the members
MalformedRequests ==
    LET b == CHOOSE b \in CompleteBodies : TRUE
    IN  {Request(FALSE, FALSE, b, NoHeader, TRUE, "none"),
         Request(TRUE, FALSE, b, NoHeader, TRUE, "none")}

\* well-formed JSON with at least one required member missing; the handler
\* answers before it reads the header or the store
IncompleteRequests ==
    {Request(TRUE, TRUE, b, NoHeader, p, "none") :
        b \in IncompleteBodies, p \in BOOLEAN}

\* complete requests: every header with a store that works, and every point
\* of failure of the store with a header that carries a token
CompleteRequests ==
    {Request(TRUE, TRUE, b, h, TRUE, "none") : b \in CompleteBodies, h \in Headers}
    \cup {Request(TRUE, TRUE, b, [kind |-> "bearer", tok |-> b["ssid"]], TRUE, f) :
            b \in CompleteBodies, f \in SaveFails \ {"none"}}

\* the requests of the clients of the whole-system specification: of the
\* incomplete ones, those with every member absent; of the complete ones,
\* those without a header or with "Bearer <tok>"
Requests ==
    MalformedRequests
    \cup {r \in CompleteRequests :
            r.hdr = NoHeader \/ (r.hdr.kind = "bearer" /\ r.hdr.tok # 0)}
    \cup {r \in IncompleteRequests : \A f \in FieldNames : r.body[f] = 0}

AllRequests == MalformedRequests \cup CompleteRequests \cup IncompleteRequests

\* ------------------------------------------------------ GET /local-wifi
\* lockOk: the 1 s wait for the cache mutex; printOk: cJSON_Print
\* a response of the scan endpoint: list says whether it carries "networks"
\* (count entries of the cache) and "cached"; scan is the result of the scan
\* the handler ran, "-" if it ran none
ScanResponse(m, code, err, scan) ==
    [m |-> m, code |-> code, err |-> err, list |-> FALSE, count |-> 0,
     cached |-> FALSE, scan |-> scan]

\* mutation: a failed scan is reported also when a snapshot exists
scan_handler_reports_every_failure(m, force_refresh, sc, lockOk, printOk) ==
    LET scanned == IF ~m.scan_done \/ force_refresh
                   THEN perform_wifi_scan_and_cache(m, sc)
                   ELSE [m |-> m, ret |-> "-"]
        m1 == scanned.m
    IN  IF scanned.ret \notin {"-", "ESP_OK"}
        THEN ScanResponse(m1, 500, "scan_failed", scanned.ret)
        ELSE IF ~m1.mutex \/ ~lockOk
        THEN ScanResponse(m1, 500, "cache_busy", scanned.ret)
        ELSE IF ~printOk
        THEN ScanResponse(m1, 500, "json_error", scanned.ret)
        ELSE [m |-> m1, code |-> 200, err |-> "ok", list |-> TRUE,
              count |-> m1.count, cached |-> ~force_refresh, scan |-> scanned.ret]

\* mutation: a failed scan is never reported, whatever the cache holds
scan_handler_masks_failure(m, force_refresh, sc, lockOk, printOk) ==
    LET scanned == IF ~m.scan_done \/ force_refresh
                   THEN perform_wifi_scan_and_cache(m, sc)
                   ELSE [m |-> m, ret |-> "-"]
        m1 == scanned.m
    IN  IF ~m1.mutex \/ ~lockOk
        THEN ScanResponse(m1, 500, "cache_busy", scanned.ret)
        ELSE IF ~printOk
        THEN ScanResponse(m1, 500, "json_error", scanned.ret)
        ELSE [m |-> m1, code |-> 200, err |-> "ok", list |-> TRUE,
              count |-> m1.count, cached |-> ~force_refresh, scan |-> scanned.ret]

\* mutation: the handler scans only when asked to refresh
scan_handler_scans_on_refresh_only(m, force_refresh, sc, lockOk, printOk) ==
    LET scanned == IF force_refresh
                   THEN perform_wifi_scan_and_cache(m, sc)
                   ELSE [m |-> m, ret |-> "-"]
        m1 == scanned.m
    IN  IF scanned.ret \notin {"-", "ESP_OK"} /\ ~m1.scan_done
        THEN ScanResponse(m1, 500, "scan_failed", scanned.ret)
        ELSE IF ~m1.mutex \/ ~lockOk
        THEN ScanResponse(m1, 500, "cache_busy", scanned.ret)
        ELSE IF ~printOk
        THEN ScanResponse(m1, 500, "json_error", scanned.ret)
        ELSE [m |-> m1, code |-> 200, err |-> "ok", list |-> TRUE,
              count |-> m1.count, cached |-> ~force_refresh, scan |-> scanned.ret]

scan_handler(m, force_refresh, sc, lockOk, printOk) ==
    LET scanned == IF ~m.scan_done \/ force_refresh
                   THEN perform_wifi_scan_and_cache(m, sc)
                   ELSE [m |-> m, ret |-> "-"]
        m1 == scanned.m
    IN  IF scanned.ret \notin {"-", "ESP_OK"} /\ ~m1.scan_done
        THEN ScanResponse(m1, 500, "scan_failed", scanned.ret)
        ELSE IF ~m1.mutex \/ ~lockOk
        THEN ScanResponse(m1, 500, "cache_busy", scanned.ret)
        ELSE IF ~printOk
        THEN ScanResponse(m1, 500, "json_error", scanned.ret)
        ELSE [m |-> m1, code |-> 200, err |-> "ok", list |-> TRUE,
              count |-> m1.count, cached |-> ~force_refresh, scan |-> scanned.ret]

\* ---------------------------------------------------------- GET /status
status_handler(m) ==
    IF m.connected THEN [status |-> "connected", ip |-> m.ip]
    ELSE IF m.active THEN [status |-> "provisioning", ip |-> 0]
    ELSE [status |-> "disconnected", ip |-> 0]

\* -------------------------------------------------------- event callbacks
\* mutation: the handshake range starts one code early
IsAuthFailure_from200(reason) ==
    reason = REASON_AUTH_FAIL
    \/ (reason >= REASON_HANDSHAKE_FIRST - 1 /\ reason <= REASON_HANDSHAKE_LAST)

IsAuthFailure(reason) ==
    reason = REASON_AUTH_FAIL
    \/ (reason >= REASON_HANDSHAKE_FIRST /\ reason <= REASON_HANDSHAKE_LAST)

\* mutation: the link-established event already reports "connected"
wifi_event_handler_link_connects(m, id, reason, openOk, o) ==
    IF id = "STA_CONNECTED"
    THEN [m |-> [m EXCEPT !.connected = TRUE], ret |-> "-", cleared |-> FALSE]
    ELSE LET m1 == [m EXCEPT !.connected = FALSE, !.ip = 0] IN
         IF IsAuthFailure(reason)
         THEN LET r == wifi_provisioning_clear_and_restart(m1, openOk, o)
              IN  [m |-> r.m, ret |-> r.ret, cleared |-> TRUE]
         ELSE [m |-> m1, ret |-> "-", cleared |-> FALSE]

\* wifi_event_handler of the provisioning module, for the two station events;
\* openOk and o are the outcomes of the clear-and-restart it may run
wifi_event_handler(m, id, reason, openOk, o) ==
    IF id = "STA_CONNECTED" THEN [m |-> m, ret |-> "-", cleared |-> FALSE]
    ELSE LET m1 == [m EXCEPT !.connected = FALSE, !.ip = 0] IN
         IF IsAuthFailure(reason)
         THEN LET r == wifi_provisioning_clear_and_restart(m1, openOk, o)
              IN  [m |-> r.m, ret |-> r.ret, cleared |-> TRUE]
         ELSE [m |-> m1, ret |-> "-", cleared |-> FALSE]

ip_event_handler(m, ip) == [m EXCEPT !.ip = ip, !.connected = TRUE]

\* mutation: the events do not reach the application state
wifi_sta_event_handler_keeps_state(st, id) == st

\* wifi_sta_event_handler of main.c: both events set the application state
wifi_sta_event_handler(st, id) ==
    IF id \in {"STA_CONNECTED", "STA_GOT_IP"} THEN "APP_STATE_WIFI_CONNECTED" ELSE st

\* ------------------------------------------------------------ collaborators
\* internet_verification_test(): client init, esp_http_client_perform, status
ProbeOutcomes ==
    {[init |-> FALSE, perform |-> FALSE, status |-> 0],
     [init |-> TRUE, perform |-> FALSE, status |-> 0]}
    \cup {[init |-> TRUE, perform |-> TRUE, status |-> c] : c \in {200, 503}}

internet_verification_test(p) ==
    IF p.init /\ p.perform /\ p.status = HTTP_STATUS_OK THEN "ESP_OK" ELSE "ESP_FAIL"

\* mutation: only the device certificate is looked up
certificate_manager_has_certificates_device_only(store, openOk) ==
    openOk /\ store["device_cert"] # 0

certificate_manager_has_certificates(store, openOk) ==
    openOk /\ store["device_cert"] # 0 /\ store["ca_cert"] # 0

\* certificate_manager_submit_csr(): the request or the response fails, or one
\* of the two save_certificate_to_nvs calls fails before or at its commit
CsrOutcomes == {"failed", "save1_failed", "save1_commit_failed",
                "save2_failed", "save2_commit_failed", "ok"}

certificate_manager_submit_csr(store, c) ==
    LET cert == c \in {"save1_commit_failed", "save2_failed",
                       "save2_commit_failed", "ok"}
        ca == c \in {"save2_commit_failed", "ok"}
    IN  [nvs |-> [k \in Keys |-> IF (k = "device_cert" /\ cert) \/ (k = "ca_cert" /\ ca)
                                 THEN 1 ELSE store[k]],
         err |-> IF c = "ok" THEN "ESP_OK" ELSE "ESP_FAIL"]

get_provisioning_credentials(store, openOk) ==
    IF openOk /\ store["device_id"] # 0 /\ store["prov_token"] # 0
    THEN "ESP_OK" ELSE "ESP_FAIL"

\* nvs_get_str by key name; a key that nothing writes is not found
NvsGetStr(store, key) == IF key \in Keys THEN store[key] ELSE 0

\* mqtt_client_start(): q = [client, connected]; startOk covers certificate
\* loading, esp_mqtt_client_init and esp_mqtt_client_start
mqtt_client_start(q, hasCerts, startOk) ==
    IF q.client THEN [q |-> q, ret |-> "ESP_OK"]
    ELSE IF ~hasCerts THEN [q |-> q, ret |-> "ESP_ERR_NOT_FOUND"]
    ELSE IF ~startOk THEN [q |-> q, ret |-> "ESP_FAIL"]
    ELSE [q |-> [q EXCEPT !.client = TRUE], ret |-> "ESP_OK"]

\* mutation: the client is left running
mqtt_client_stop_keeps_client(q) == q

mqtt_client_stop(q) ==
    IF ~q.client THEN q ELSE [client |-> FALSE, connected |-> FALSE]

\* ------------------------------------------------------------- environment
\* The outcomes the environment may give to the calls of the loop and of the
\* event callbacks: nvs_open (opens), wifi_provisioning_start (starts), the
\* probe, the CSR submission, the messaging client (start, connection within
\* the 30 s wait), the disconnect reasons, and the link states in which an
\* address event arrives ("up": first address, "ip": a new lease).
AnyEnv ==
    [opens |-> BOOLEAN,
     starts |-> StartOutcomes(TRUE) \cup StartOutcomes(FALSE),
     probes |-> ProbeOutcomes,
     csrs |-> CsrOutcomes,
     mqtts |-> BOOLEAN \X BOOLEAN,
     reasons |-> Reasons,
     links |-> {"up", "ip"}]

\* the environment of a provisioning that goes well: the store opens, the
\* access point and the server start, the probe succeeds, the messaging
\* client connects, one address is assigned; a CSR submission may fail
ExpectedEnv ==
    [AnyEnv EXCEPT !.opens = {TRUE},
                   !.starts = {o \in AnyEnv.starts : o.init = "ok" /\ o.httpd},
                   !.probes = {p \in ProbeOutcomes :
                                 p.init /\ p.perform /\ p.status = HTTP_STATUS_OK},
                   !.mqtts = {<<TRUE, TRUE>>},
                   !.links = {"up"}]

\* the same, with a CSR submission that succeeds
CsrSucceedsEnv == [ExpectedEnv EXCEPT !.csrs = {"ok"}]

\* an environment in which the station connection may fail: any disconnect
\* reason and any probe result; the store and the restart of the access
\* point work
RecoveryEnv == [ExpectedEnv EXCEPT !.probes = ProbeOutcomes]

\* ------------------------------------------------------------------ state
NoLast == [op |-> "boot", reason |-> 0, ret |-> "-", clears |-> 0,
           pre_active |-> FALSE, code |-> 0, err |-> "-", missing |-> <<>>,
           list |-> FALSE, absent |-> {}, print_ok |-> TRUE,
           status |-> "-", probe |-> "-", mqtt |-> "-",
           scan |-> "-", count |-> 0, cached |-> FALSE,
           body |-> <<>>, hdr |-> "-", effects |-> <<>>,
           from |-> "-", csr |-> "-"]

\* mutation: app_main leaves the store as it finds it
app_main_keeps_store(store, openOk) == store

\* app_main, "DEVELOPMENT MODE": if the namespace opens, the six
\* provisioning keys and the two certificates are erased
app_main(store, openOk) ==
    [k \in Keys |-> IF openOk /\ k \in ProvKeys \cup CertKeys THEN 0 ELSE store[k]]

\* a boot: whether app_main could open the store (ret), and the number of
\* keys the store held before app_main ran (count)
BootLast(store, openOk) ==
    [NoLast EXCEPT !.ret = IF openOk THEN "ESP_OK" ELSE "ESP_FAIL",
                   !.count = Cardinality({k \in Keys : store[k] # 0})]

\* the tasks of the task-level view, each outside of any call
Tasks == {"loop", "event", "httpd"}
TaskIdle == [pc |-> "idle", call |-> "-", ret |-> "-", n |-> 0, force |-> FALSE]

\* after app_main, with everything but the store and the boot history
InitRest ==
    /\ tasks = [t \in Tasks |-> TaskIdle]
    /\ mutex_holder = "none"
    /\ http_instances = 0
    /\ s_httpd = FALSE
    /\ s_provisioning_active = FALSE
    /\ s_wifi_connected = FALSE
    /\ s_sta_ip = 0
    /\ s_cache_mutex = FALSE
    /\ s_initial_scan_done = FALSE
    /\ s_cached_network_count = 0
    /\ radio = RadioOff
    /\ s_app_state = "APP_STATE_INIT"
    /\ pc = "top"
    /\ connection_attempted = FALSE
    /\ verification_done = FALSE
    /\ verification_retries = 0
    /\ mqtt_connect_retries = 0
    /\ s_mqtt_client = FALSE
    /\ s_mqtt_connected = FALSE
    /\ aborted = FALSE
    /\ submitted = FALSE
    /\ was_reset = FALSE
    /\ probe_fail_run = 0

\* the first boot: the flash is empty, the store opens, the loop task starts
Init ==
    /\ nvs = app_main(EmptyStore, TRUE)
    /\ boot_opened = TRUE
    /\ last = BootLast(EmptyStore, TRUE)
    /\ InitRest

\* an iteration of the loop, and the state in which it started
LoopLast == [NoLast EXCEPT !.op = "loop", !.from = s_app_state]

\* ------------------------------------------------------------ control loop
LoopInit ==
    /\ ~aborted /\ pc = "top" /\ s_app_state = "APP_STATE_INIT"
    /\ s_app_state' = "APP_STATE_CHECK_PROVISIONING"
    /\ probe_fail_run' = 0
    /\ last' = LoopLast
    /\ UNCHANGED <<provVars, mqttVars, pc, connection_attempted, verification_done,
                   verification_retries, mqtt_connect_retries, aborted, submitted, was_reset,
                   moreVars>>

LoopCheckProvisioningIn(env) ==
    /\ ~aborted /\ pc = "top" /\ s_app_state = "APP_STATE_CHECK_PROVISIONING"
    /\ \E openOk \in env.opens :
         s_app_state' = IF wifi_provisioning_is_provisioned(nvs, openOk)
                        THEN "APP_STATE_WIFI_CONNECTING" ELSE "APP_STATE_AP_MODE"
    /\ probe_fail_run' = 0
    /\ last' = LoopLast
    /\ UNCHANGED <<provVars, mqttVars, pc, connection_attempted, verification_done,
                   verification_retries, mqtt_connect_retries, aborted, submitted, was_reset,
                   moreVars>>

LoopCheckProvisioning == LoopCheckProvisioningIn(AnyEnv)

\* AP_MODE, first half: the test of the provisioned flag
LoopApModeCheckIn(env) ==
    /\ ~aborted /\ pc = "top" /\ s_app_state = "APP_STATE_AP_MODE"
    /\ \E openOk \in env.opens :
         IF wifi_provisioning_is_provisioned(nvs, openOk)
         THEN s_app_state' = "APP_STATE_WIFI_CONNECTING" /\ pc' = pc
         ELSE s_app_state' = s_app_state /\ pc' = "ap_start"
    /\ probe_fail_run' = 0
    /\ last' = [LoopLast EXCEPT !.pre_active = s_provisioning_active]
    /\ UNCHANGED <<provVars, mqttVars, connection_attempted, verification_done,
                   verification_retries, mqtt_connect_retries, aborted, submitted, was_reset,
                   moreVars>>

LoopApModeCheck == LoopApModeCheckIn(AnyEnv)

\* AP_MODE, second half: the call of wifi_provisioning_start()
LoopApModeStartIn(env) ==
    /\ ~aborted /\ pc = "ap_start"
    /\ \E o \in OutcomesIf(~s_provisioning_active,
                           StartOutcomes(s_cache_mutex) \cap env.starts) :
         \E r \in {wifi_provisioning_start(M, o)} :
           /\ SetM(r.m)
           /\ aborted' = (r.ret = "ABORT")
           /\ last' = [NoLast EXCEPT !.op = "ap_start", !.ret = r.ret,
                                     !.pre_active = s_provisioning_active]
    /\ pc' = "top"
    /\ probe_fail_run' = 0
    /\ UNCHANGED <<mqttVars, s_app_state, connection_attempted, verification_done,
                   verification_retries, mqtt_connect_retries, submitted, was_reset,
                   moreVars>>

LoopApModeStart == LoopApModeStartIn(AnyEnv)

\* WIFI_CONNECTING: one station connect attempt, then wait for the events
LoopWifiConnectingIn(env) ==
    /\ ~aborted /\ pc = "top" /\ s_app_state = "APP_STATE_WIFI_CONNECTING"
    /\ \E openOk \in env.opens :
         IF ~connection_attempted /\ openOk /\ NvsGetStr(nvs, "wifi_ssid") # 0
         THEN /\ connection_attempted' = TRUE
              /\ radio' = IF radio.init
                          THEN [radio EXCEPT !.mode = "STA", !.started = TRUE,
                                   !.ssid = NvsGetStr(nvs, "wifi_ssid"),
                                   !.pass = NvsGetStr(nvs, "wifi_password"),
                                   !.link = "connecting"]
                          ELSE radio
         ELSE UNCHANGED <<connection_attempted, radio>>
    /\ probe_fail_run' = 0
    /\ last' = LoopLast
    /\ UNCHANGED <<nvs, s_httpd, s_provisioning_active, s_wifi_connected, s_sta_ip,
                   s_cache_mutex, s_initial_scan_done, s_cached_network_count,
                   mqttVars, s_app_state, pc, verification_done,
                   verification_retries, mqtt_connect_retries, aborted, submitted, was_reset,
                   moreVars>>

LoopWifiConnecting == LoopWifiConnectingIn(AnyEnv)

\* mutation: off by one, a third failed probe is needed
VerificationExhausted_late(retries) == retries > MAX_VERIFICATION_RETRIES

\* verification_retries >= MAX_VERIFICATION_RETRIES, after the increment
VerificationExhausted(retries) == retries >= MAX_VERIFICATION_RETRIES

ProbeCause(p) ==
    IF ~p.init THEN "init_failed"
    ELSE IF ~p.perform THEN "perform_failed"
    ELSE IF p.status # HTTP_STATUS_OK THEN "bad_status" ELSE "ok"

LoopWifiConnectedIn(env) ==
    /\ ~aborted /\ pc = "top" /\ s_app_state = "APP_STATE_WIFI_CONNECTED"
    /\ \E openOk \in env.opens :
       LET prov == wifi_provisioning_is_provisioned(nvs, openOk)
           probes == prov /\ ~verification_done
       IN
       \E p \in OutcomesIf(probes, env.probes) :
         IF ~prov
         THEN /\ verification_done' = FALSE
              /\ verification_retries' = 0
              /\ s_app_state' = "APP_STATE_AP_MODE"
              /\ probe_fail_run' = 0
              /\ last' = LoopLast
              /\ UNCHANGED <<provVars, aborted, submitted, was_reset,
                   moreVars>>
         ELSE IF verification_done
         THEN /\ s_app_state' = "APP_STATE_CHECK_CERTIFICATES"
              /\ probe_fail_run' = 0
              /\ last' = LoopLast
              /\ UNCHANGED <<provVars, verification_done, verification_retries,
                             aborted, submitted, was_reset,
                   moreVars>>
         ELSE IF internet_verification_test(p) = "ESP_OK"
         THEN /\ verification_done' = TRUE
              /\ verification_retries' = 0
              /\ s_app_state' = "APP_STATE_CHECK_CERTIFICATES"
              /\ probe_fail_run' = 0
              /\ last' = [LoopLast EXCEPT !.probe = "ok"]
              /\ UNCHANGED <<provVars, aborted, submitted, was_reset,
                   moreVars>>
         ELSE IF VerificationExhausted(verification_retries + 1)
         THEN \E r \in {wifi_provisioning_clear_and_restart(M, clearOpenOk, o) :
                           clearOpenOk \in env.opens,
                           o \in StartOutcomes(s_cache_mutex) \cap env.starts} :
              /\ SetM(r.m)
              /\ aborted' = (r.ret = "ABORT")
              /\ submitted' = FALSE
              /\ was_reset' = TRUE
              /\ UNCHANGED moreVars
              /\ verification_done' = FALSE
              /\ verification_retries' = 0
              /\ s_app_state' = "APP_STATE_AP_MODE"
              /\ probe_fail_run' = Min(probe_fail_run + 1, 2)
              /\ last' = [LoopLast EXCEPT !.probe = ProbeCause(p),
                                                       !.clears = 1, !.ret = r.ret]
         ELSE /\ verification_retries' = verification_retries + 1
              /\ probe_fail_run' = Min(probe_fail_run + 1, 2)
              /\ last' = [LoopLast EXCEPT !.probe = ProbeCause(p)]
              /\ UNCHANGED <<provVars, verification_done, s_app_state, aborted,
                             submitted, was_reset,
                   moreVars>>
    /\ UNCHANGED <<mqttVars, pc, connection_attempted, mqtt_connect_retries>>

LoopWifiConnected == LoopWifiConnectedIn(AnyEnv)

LoopCheckCertificatesIn(env) ==
    /\ ~aborted /\ pc = "top" /\ s_app_state = "APP_STATE_CHECK_CERTIFICATES"
    /\ \E openOk \in env.opens :
         /\ s_app_state' = IF certificate_manager_has_certificates(nvs, openOk)
                           THEN "APP_STATE_MQTT_CONNECTING" ELSE "APP_STATE_SUBMIT_CSR"
         /\ last' = [LoopLast EXCEPT !.ret = IF openOk THEN "ESP_OK" ELSE "ESP_FAIL"]
    /\ probe_fail_run' = 0
    /\ UNCHANGED <<provVars, mqttVars, pc, connection_attempted, verification_done,
                   verification_retries, mqtt_connect_retries, aborted, submitted, was_reset,
                   moreVars>>

LoopCheckCertificates == LoopCheckCertificatesIn(AnyEnv)

\* mutation: a failed submission is terminal
CsrNextState_gives_up(st, err) ==
    IF err = "ESP_OK" THEN "APP_STATE_MQTT_CONNECTING" ELSE "APP_STATE_ERROR"

\* SUBMIT_CSR: the state after certificate_manager_submit_csr returned err
CsrNextState(st, err) ==
    IF err = "ESP_OK" THEN "APP_STATE_MQTT_CONNECTING" ELSE st

LoopSubmitCsrIn(env) ==
    /\ ~aborted /\ pc = "top" /\ s_app_state = "APP_STATE_SUBMIT_CSR"
    /\ \E openOk \in env.opens :
       \E c \in OutcomesIf(get_provisioning_credentials(nvs, openOk) = "ESP_OK",
                            env.csrs) :
         IF get_provisioning_credentials(nvs, openOk) # "ESP_OK"
         THEN /\ s_app_state' = "APP_STATE_ERROR"
              /\ nvs' = nvs
              /\ last' = [LoopLast EXCEPT !.csr = "no_credentials"]
         ELSE \E r \in {certificate_manager_submit_csr(nvs, c)} :
              /\ nvs' = r.nvs
              /\ s_app_state' = CsrNextState(s_app_state, r.err)
              /\ last' = [LoopLast EXCEPT !.csr = r.err]
    /\ probe_fail_run' = 0
    /\ UNCHANGED <<s_httpd, s_provisioning_active, s_wifi_connected, s_sta_ip,
                   s_cache_mutex, s_initial_scan_done, s_cached_network_count, radio,
                   mqttVars, pc, connection_attempted, verification_done,
                   verification_retries, mqtt_connect_retries, aborted, submitted, was_reset,
                   moreVars>>

LoopSubmitCsr == LoopSubmitCsrIn(AnyEnv)

\* MQTT_CONNECTING: start the client, wait up to 30 s for the connection;
\* mq = <<the client could be started, it connected within the wait>>
LoopMqttConnectingIn(env) ==
    /\ ~aborted /\ pc = "top" /\ s_app_state = "APP_STATE_MQTT_CONNECTING"
    /\ \E openOk \in env.opens, mq \in env.mqtts :
         \E r \in {mqtt_client_start(
                     [client |-> s_mqtt_client, connected |-> s_mqtt_connected],
                     certificate_manager_has_certificates(nvs, openOk), mq[1])} :
             IF r.ret = "ESP_OK" /\ mq[2]
             THEN /\ s_mqtt_client' = r.q.client
                  /\ s_mqtt_connected' = TRUE
                  /\ mqtt_connect_retries' = 0
                  /\ s_app_state' = "APP_STATE_MQTT_CONNECTED"
                  /\ last' = [LoopLast EXCEPT !.mqtt = "connected"]
             ELSE /\ mqtt_connect_retries < MaxMqttCount
                  /\ IF r.ret = "ESP_OK"
                     THEN /\ s_mqtt_client' = mqtt_client_stop(r.q).client
                          /\ s_mqtt_connected' = mqtt_client_stop(r.q).connected
                          /\ last' = [LoopLast EXCEPT !.mqtt = "timeout"]
                     ELSE /\ UNCHANGED <<s_mqtt_client, s_mqtt_connected>>
                          /\ last' = [LoopLast EXCEPT !.mqtt = "start_failed"]
                  /\ mqtt_connect_retries' = mqtt_connect_retries + 1
                  /\ s_app_state' = IF mqtt_connect_retries + 1 >= MAX_MQTT_RETRIES
                                    THEN "APP_STATE_ERROR" ELSE s_app_state
    /\ probe_fail_run' = 0
    /\ UNCHANGED <<provVars, pc, connection_attempted, verification_done,
                   verification_retries, aborted, submitted, was_reset,
                   moreVars>>

LoopMqttConnecting == LoopMqttConnectingIn(AnyEnv)

LoopMqttConnected ==
    /\ ~aborted /\ pc = "top" /\ s_app_state = "APP_STATE_MQTT_CONNECTED"
    /\ IF ~s_mqtt_connected
       THEN \E q \in {mqtt_client_stop([client |-> s_mqtt_client,
                                          connected |-> s_mqtt_connected])} :
            /\ s_mqtt_client' = q.client
            /\ s_mqtt_connected' = q.connected
            /\ s_app_state' = "APP_STATE_MQTT_CONNECTING"
       ELSE UNCHANGED <<s_mqtt_client, s_mqtt_connected, s_app_state>>
    /\ probe_fail_run' = 0
    /\ last' = LoopLast
    /\ UNCHANGED <<provVars, pc, connection_attempted, verification_done,
                   verification_retries, mqtt_connect_retries, aborted, submitted, was_reset,
                   moreVars>>

\* ERROR: a 10 s delay and nothing else
LoopError ==
    /\ ~aborted /\ pc = "top" /\ s_app_state = "APP_STATE_ERROR"
    /\ probe_fail_run' = 0
    /\ last' = LoopLast
    /\ UNCHANGED <<provVars, loopVars, mqttVars, aborted, submitted, was_reset,
                   moreVars>>

\* ------------------------------------------------- link and address events
\* Both registered callbacks run for an event, on the event loop task:
\* wifi_sta_event_handler (main.c) and the provisioning module's handler.
EvStaConnected ==
    /\ ~aborted /\ radio.started /\ radio.link = "connecting"
    /\ \E r \in {wifi_event_handler([M EXCEPT !.radio.link = "up"],
                                      "STA_CONNECTED", 0, TRUE,
                                      CHOOSE o \in StartOutcomes(s_cache_mutex) : TRUE)} :
         SetM(r.m)
    /\ s_app_state' = wifi_sta_event_handler(s_app_state, "STA_CONNECTED")
    /\ last' = [NoLast EXCEPT !.op = "sta_connected"]
    /\ UNCHANGED <<mqttVars, pc, connection_attempted, verification_done,
                   verification_retries, mqtt_connect_retries, aborted, submitted, was_reset, moreVars,
                   probe_fail_run>>

\* the first address of an association, or a lease with another address
EvStaGotIpIn(env) ==
    /\ ~aborted /\ radio.started /\ radio.link \in env.links
    /\ \E ip \in Ips :
         /\ radio.link = "ip" => ip # s_sta_ip
         /\ \E m \in {ip_event_handler([M EXCEPT !.radio.link = "ip"], ip)} : SetM(m)
    /\ s_app_state' = wifi_sta_event_handler(s_app_state, "STA_GOT_IP")
    /\ last' = [NoLast EXCEPT !.op = "got_ip"]
    /\ UNCHANGED <<mqttVars, pc, connection_attempted, verification_done,
                   verification_retries, mqtt_connect_retries, aborted, submitted, was_reset, moreVars,
                   probe_fail_run>>

EvStaGotIp == EvStaGotIpIn(AnyEnv)

EvStaDisconnectedIn(env) ==
    /\ ~aborted /\ radio.started /\ radio.link \in {"connecting", "up", "ip"}
    /\ \E reason \in env.reasons :
         \E r \in {wifi_event_handler([M EXCEPT !.radio.link = "idle"],
                                        "STA_DISCONNECTED", reason, openOk, o) :
                      openOk \in OutcomesIf(IsAuthFailure(reason), env.opens),
                      o \in OutcomesIf(IsAuthFailure(reason),
                               StartOutcomes(s_cache_mutex) \cap env.starts)} :
             /\ SetM(r.m)
             /\ aborted' = (r.ret = "ABORT")
             /\ submitted' = IF r.cleared THEN FALSE ELSE submitted
             /\ was_reset' = (was_reset \/ r.cleared)
             /\ UNCHANGED moreVars
             /\ last' = [NoLast EXCEPT !.op = "sta_disconnected",
                            !.reason = reason, !.ret = r.ret,
                            !.clears = IF r.cleared THEN 1 ELSE 0]
    /\ s_app_state' = wifi_sta_event_handler(s_app_state, "STA_DISCONNECTED")
    /\ UNCHANGED <<mqttVars, pc, connection_attempted, verification_done,
                   verification_retries, mqtt_connect_retries, probe_fail_run>>

EvStaDisconnected == EvStaDisconnectedIn(AnyEnv)

\* mqtt_event_handler: MQTT_EVENT_CONNECTED / MQTT_EVENT_DISCONNECTED
EvMqtt ==
    /\ ~aborted /\ s_mqtt_client
    /\ \E c \in BOOLEAN :
         /\ c # s_mqtt_connected
         /\ s_mqtt_connected' = c
         /\ last' = [NoLast EXCEPT !.op = "mqtt_event",
                                   !.mqtt = IF c THEN "connected" ELSE "disconnected"]
    /\ UNCHANGED <<provVars, loopVars, s_mqtt_client, aborted, submitted, was_reset, moreVars,
                   probe_fail_run>>

\* ------------------------------------------------------------ HTTP requests
\* a client reaches the server only through the device's access point
Reachable == s_httpd /\ radio.started /\ radio.mode = "APSTA"

\* POST /provision with a request drawn from reqs
Provision(reqs) ==
    /\ ~aborted /\ Reachable
    /\ \E req \in reqs :
         \E r \in {provision_handler(M, req)} :
           /\ SetM(r.m)
           /\ submitted' = (submitted \/ r.resp.code = 200)
           /\ was_reset' = was_reset
           /\ UNCHANGED moreVars
           /\ last' = [NoLast EXCEPT !.op = "provision", !.code = r.resp.code,
                          !.err = r.resp.err, !.missing = r.resp.missing,
                          !.list = r.resp.list,
                          !.pre_active = s_provisioning_active,
                          !.absent = IF req.recv /\ req.json
                                     THEN {f \in FieldNames : req.body[f] <= 0}
                                     ELSE {},
                          !.print_ok = req.printOk,
                          !.body = IF r.resp.code = 200 THEN req.body ELSE <<>>,
                          !.hdr = IF r.resp.code = 200 THEN req.hdr.kind ELSE "-",
                          !.effects = r.effects]
    /\ UNCHANGED <<loopVars, mqttVars, aborted, probe_fail_run>>

HttpProvision == Provision(Requests)

\* the same handler, with every shape of body
HttpProvisionAny == Provision(AllRequests)

\* GET /local-wifi; the lock and the serialisation happen only on the paths
\* that reach them
HttpScan ==
    /\ ~aborted /\ Reachable
    /\ \E force_refresh \in BOOLEAN :
       \E sc \in OutcomesIf(~s_initial_scan_done \/ force_refresh,
                            ScanOutcomes(s_cache_mutex)) :
       \E pre \in {scan_handler(M, force_refresh, sc, TRUE, TRUE)} :
       \E lockOk \in OutcomesIf(pre.code = 200, BOOLEAN) :
       \E printOk \in OutcomesIf(pre.code = 200 /\ lockOk, BOOLEAN) :
         \E r \in {scan_handler(M, force_refresh, sc, lockOk, printOk)} :
           /\ SetM(r.m)
           /\ last' = [NoLast EXCEPT !.op = "scan", !.code = r.code, !.err = r.err,
                          !.scan = IF r.scan \in {"-", "ESP_OK"} THEN r.scan
                                   ELSE "failed",
                          !.list = r.list, !.count = r.count,
                          !.cached = r.cached]
    /\ UNCHANGED <<loopVars, mqttVars, aborted, submitted, was_reset,
                   moreVars, probe_fail_run>>

HttpStatus ==
    /\ ~aborted /\ Reachable
    /\ last' = [NoLast EXCEPT !.op = "status", !.code = 200,
                              !.status = status_handler(M).status]
    /\ UNCHANGED <<provVars, loopVars, mqttVars, aborted, submitted, was_reset,
                   moreVars, probe_fail_run>>

\* ------------------------------------------------------------------ reboot
\* abort() restarts the chip; app_main clears the store, if it can open it,
\* and starts over
RebootIn(env) ==
    /\ aborted
    /\ \E openOk \in env.opens :
         /\ nvs' = app_main(nvs, openOk)
         /\ boot_opened' = openOk
         /\ last' = BootLast(nvs, openOk)
    /\ tasks' = [t \in Tasks |-> TaskIdle]
    /\ mutex_holder' = "none"
    /\ http_instances' = 0
    /\ s_httpd' = FALSE
    /\ s_provisioning_active' = FALSE
    /\ s_wifi_connected' = FALSE
    /\ s_sta_ip' = 0
    /\ s_cache_mutex' = FALSE
    /\ s_initial_scan_done' = FALSE
    /\ s_cached_network_count' = 0
    /\ radio' = RadioOff
    /\ s_app_state' = "APP_STATE_INIT"
    /\ pc' = "top"
    /\ connection_attempted' = FALSE
    /\ verification_done' = FALSE
    /\ verification_retries' = 0
    /\ mqtt_connect_retries' = 0
    /\ s_mqtt_client' = FALSE
    /\ s_mqtt_connected' = FALSE
    /\ aborted' = FALSE
    /\ submitted' = FALSE
    /\ was_reset' = FALSE
    /\ probe_fail_run' = 0

\* the whole-system specification assumes, as its Init does, that app_main
\* can open the store
Reboot == RebootIn(ExpectedEnv)

Next ==
    \/ LoopInit
    \/ LoopCheckProvisioning
    \/ LoopApModeCheck
    \/ LoopApModeStart
    \/ LoopWifiConnecting
    \/ LoopWifiConnected
    \/ LoopCheckCertificates
    \/ LoopSubmitCsr
    \/ LoopMqttConnecting
    \/ LoopMqttConnected
    \/ LoopError
    \/ EvStaConnected
    \/ EvStaGotIp
    \/ EvStaDisconnected
    \/ EvMqtt
    \/ HttpProvision
    \/ HttpScan
    \/ HttpStatus
    \/ Reboot

Spec == Init /\ [][Next]_vars

\* the provisioning server alone: the loop brings the access point up, then
\* clients send requests of every shape
NextProvision ==
    \/ LoopInit
    \/ LoopCheckProvisioning
    \/ LoopApModeCheck
    \/ LoopApModeStart
    \/ HttpProvisionAny
    \/ HttpScan
    \/ HttpStatus
    \/ Reboot

SpecProvision == Init /\ [][NextProvision]_vars

\* a provisioning that goes well, from the unprovisioned boot to the
\* messaging connection: no disconnect, no failure but those of the CSR
\* submission
LoopEndToEnd ==
    \/ LoopInit
    \/ LoopCheckProvisioningIn(ExpectedEnv)
    \/ LoopApModeCheckIn(ExpectedEnv)
    \/ LoopApModeStartIn(ExpectedEnv)
    \/ LoopWifiConnectingIn(ExpectedEnv)
    \/ LoopWifiConnectedIn(ExpectedEnv)
    \/ LoopCheckCertificatesIn(ExpectedEnv)
    \/ LoopSubmitCsrIn(ExpectedEnv)
    \/ LoopMqttConnectingIn(ExpectedEnv)
    \/ LoopMqttConnected

NextEndToEnd ==
    \/ LoopEndToEnd
    \/ EvStaConnected
    \/ EvStaGotIpIn(ExpectedEnv)
    \/ EvMqtt
    \/ HttpProvision
    \/ HttpScan
    \/ HttpStatus

\* The loop task runs forever (every case ends in a vTaskDelay), so the loop
\* takes a step whenever it can. The link and address events that follow a
\* station connect attempt, and a CSR submission that eventually succeeds,
\* are what the environment is assumed to deliver.
SpecEndToEnd ==
    /\ Init /\ [][NextEndToEnd]_vars
    /\ WF_vars(LoopEndToEnd)
    /\ WF_vars(EvStaConnected)
    /\ WF_vars(EvStaGotIpIn(ExpectedEnv))
    /\ WF_vars(LoopSubmitCsrIn(CsrSucceedsEnv))

\* station connections that fail: disconnects with any reason, probes with
\* any result, then new submits
LoopRecovery ==
    \/ LoopInit
    \/ LoopCheckProvisioningIn(RecoveryEnv)
    \/ LoopApModeCheckIn(RecoveryEnv)
    \/ LoopApModeStartIn(RecoveryEnv)
    \/ LoopWifiConnectingIn(RecoveryEnv)
    \/ LoopWifiConnectedIn(RecoveryEnv)
    \/ LoopCheckCertificatesIn(RecoveryEnv)
    \/ LoopSubmitCsrIn(RecoveryEnv)
    \/ LoopMqttConnectingIn(RecoveryEnv)
    \/ LoopMqttConnected
    \/ LoopError

NextRecovery ==
    \/ LoopRecovery
    \/ EvStaConnected
    \/ EvStaGotIpIn(RecoveryEnv)
    \/ EvStaDisconnectedIn(RecoveryEnv)
    \/ EvMqtt
    \/ HttpProvision
    \/ HttpScan
    \/ HttpStatus

\* the loop runs; once a station connect is attempted the link and address
\* events arrive unless a disconnect comes first
SpecRecovery ==
    /\ Init /\ [][NextRecovery]_vars
    /\ WF_vars(LoopRecovery)
    /\ WF_vars(EvStaConnected)
    /\ WF_vars(EvStaGotIpIn(RecoveryEnv))

\* boots with something in the store: what the flash may hold when the chip
\* is powered up (nothing, a provisioned device, its certificates as well,
\* the certificates alone), with app_main opening the store or not; then
\* the loop up to the station connect attempt, and the provisioning server
BootStores ==
    {[k \in Keys |-> IF k \in S THEN 1 ELSE 0] :
        S \in {{}, ProvKeys, CertKeys, ProvKeys \cup CertKeys}}

InitBoot ==
    /\ \E store \in BootStores, openOk \in AnyEnv.opens :
         /\ nvs = app_main(store, openOk)
         /\ boot_opened = openOk
         /\ last = BootLast(store, openOk)
    /\ InitRest

RebootAny == RebootIn(AnyEnv)

NextBoot ==
    \/ LoopInit
    \/ LoopCheckProvisioning
    \/ LoopApModeCheck
    \/ LoopApModeStart
    \/ LoopWifiConnecting
    \/ HttpProvision
    \/ HttpScan
    \/ HttpStatus
    \/ RebootAny

SpecBoot == InitBoot /\ [][NextBoot]_vars

\* ------------------------------------------------------- task-level view
\* The same program with the calls that share the statics of
\* wifi_provisioning.c taken one statement at a time, so that the loop task,
\* the event task and the HTTP server task interleave inside them:
\* wifi_provisioning_start, perform_wifi_scan_and_cache,
\* wifi_provisioning_clear_and_restart and scan_handler. tasks[t].pc is the
\* statement task t executes next, tasks[t].call the call it is in ("start"
\* from AP_MODE, "clear" for a clear-and-restart, "scan" for GET /local-wifi),
\* ret and n the locals ret and ap_count / count, force the refresh flag.
\* The store opens, esp_netif_init, the event loop and wifi_init_ap succeed.
TaskEnv == RecoveryEnv

\* statements executed with the cache mutex taken
CopyInPcs == {"scan_count", "scan_done", "scan_give"}
CopyOutPcs == {"h_copy", "h_count", "h_give"}
\* statements that wait for the radio or for the HTTP client
ScanIoPcs == {"scan_radio"}
HttpIoPcs == {"h_send"}

TaskStep == [NoLast EXCEPT !.op = "statement"]

Goto(t, to) == tasks' = [tasks EXCEPT ![t].pc = to]

\* the statement after perform_wifi_scan_and_cache returned
AfterScan(t) == IF tasks[t].call = "scan" THEN "h_check" ELSE "start_httpd"

ScanReturns(t, ret) ==
    tasks' = [tasks EXCEPT ![t].pc = AfterScan(t), ![t].ret = ret]

\* wifi_provisioning_start: if (s_provisioning_active) return ESP_OK;
TStartCheck(t) ==
    /\ tasks[t].pc = "start_check"
    /\ IF s_provisioning_active
       THEN tasks' = [tasks EXCEPT ![t].pc = "return", ![t].ret = "ESP_OK"]
       ELSE Goto(t, "start_init")
    /\ last' = TaskStep
    /\ UNCHANGED <<provVars, loopVars, mqttVars, aborted, submitted, was_reset,
                   boot_opened, mutex_holder, http_instances, probe_fail_run>>

\* wifi_init_ap()
TStartInit(t) ==
    /\ tasks[t].pc = "start_init"
    /\ radio' = wifi_init_ap(radio)
    /\ Goto(t, "scan_create")
    /\ last' = TaskStep
    /\ UNCHANGED <<nvs, s_httpd, s_provisioning_active, s_wifi_connected, s_sta_ip,
                   s_cache_mutex, s_initial_scan_done, s_cached_network_count,
                   loopVars, mqttVars, aborted, submitted, was_reset,
                   boot_opened, mutex_holder, http_instances, probe_fail_run>>

\* perform_wifi_scan_and_cache: creation of the mutex
TScanCreate(t) ==
    /\ tasks[t].pc = "scan_create"
    /\ \E ok \in OutcomesIf(~s_cache_mutex, BOOLEAN) :
         IF ~s_cache_mutex /\ ~ok
         THEN ScanReturns(t, "ESP_ERR_NO_MEM") /\ UNCHANGED s_cache_mutex
         ELSE s_cache_mutex' = TRUE /\ Goto(t, "scan_radio")
    /\ last' = TaskStep
    /\ UNCHANGED <<nvs, s_httpd, s_provisioning_active, s_wifi_connected, s_sta_ip,
                   s_initial_scan_done, s_cached_network_count, radio,
                   loopVars, mqttVars, aborted, submitted, was_reset,
                   boot_opened, mutex_holder, http_instances, probe_fail_run>>

\* the results of the blocking scan: it fails, or it finds three networks
TaskScanOutcomes ==
    {o \in ScanOutcomes(TRUE) : o.res = "scan_failed" \/ (o.res = "ok" /\ o.n = 3)}

\* esp_wifi_scan_start(&scan_config, true) returns, and the count is capped
TScanRadio(t) ==
    /\ tasks[t].pc = "scan_radio"
    /\ \E sc \in TaskScanOutcomes :
         IF sc.res = "scan_failed"
         THEN ScanReturns(t, "ESP_FAIL")
         ELSE tasks' = [tasks EXCEPT ![t].pc = "scan_take",
                                     ![t].n = Min(sc.n, WIFI_SCAN_MAX_APS)]
    /\ last' = TaskStep
    /\ UNCHANGED <<provVars, loopVars, mqttVars, aborted, submitted, was_reset,
                   boot_opened, mutex_holder, http_instances, probe_fail_run>>

\* xSemaphoreTake(s_cache_mutex, 5 s): taken if free; the wait can only time
\* out while another task holds the mutex
TScanTake(t) ==
    /\ tasks[t].pc = "scan_take"
    /\ IF mutex_holder = "none"
       THEN mutex_holder' = t /\ Goto(t, "scan_count")
       ELSE mutex_holder' = mutex_holder /\ ScanReturns(t, "ESP_ERR_TIMEOUT")
    /\ last' = TaskStep
    /\ UNCHANGED <<provVars, loopVars, mqttVars, aborted, submitted, was_reset,
                   boot_opened, http_instances, probe_fail_run>>

\* s_cached_network_count = ap_count; and the records
TScanCount(t) ==
    /\ tasks[t].pc = "scan_count"
    /\ s_cached_network_count' = tasks[t].n
    /\ Goto(t, "scan_done")
    /\ last' = TaskStep
    /\ UNCHANGED <<nvs, s_httpd, s_provisioning_active, s_wifi_connected, s_sta_ip,
                   s_cache_mutex, s_initial_scan_done, radio,
                   loopVars, mqttVars, aborted, submitted, was_reset,
                   boot_opened, mutex_holder, http_instances, probe_fail_run>>

\* s_initial_scan_done = true;
TScanDone(t) ==
    /\ tasks[t].pc = "scan_done"
    /\ s_initial_scan_done' = TRUE
    /\ Goto(t, "scan_give")
    /\ last' = TaskStep
    /\ UNCHANGED <<nvs, s_httpd, s_provisioning_active, s_wifi_connected, s_sta_ip,
                   s_cache_mutex, s_cached_network_count, radio,
                   loopVars, mqttVars, aborted, submitted, was_reset,
                   boot_opened, mutex_holder, http_instances, probe_fail_run>>

\* mutation: the scan returns ESP_OK without giving the mutex back
TScanGive_keeps_mutex(t) ==
    /\ tasks[t].pc = "scan_give"
    /\ ScanReturns(t, "ESP_OK")
    /\ last' = TaskStep
    /\ UNCHANGED <<provVars, loopVars, mqttVars, aborted, submitted, was_reset,
                   boot_opened, mutex_holder, http_instances, probe_fail_run>>

\* xSemaphoreGive(s_cache_mutex); return ESP_OK;
TScanGive(t) ==
    /\ tasks[t].pc = "scan_give"
    /\ mutex_holder' = IF mutex_holder = t THEN "none" ELSE mutex_holder
    /\ ScanReturns(t, "ESP_OK")
    /\ last' = TaskStep
    /\ UNCHANGED <<provVars, loopVars, mqttVars, aborted, submitted, was_reset,
                   boot_opened, http_instances, probe_fail_run>>

\* s_httpd = start_http_server(); on NULL: esp_wifi_stop(), return ESP_FAIL
TStartHttpd(t) ==
    /\ tasks[t].pc = "start_httpd"
    /\ \E ok \in BOOLEAN :
         IF ok
         THEN /\ s_httpd' = TRUE
              /\ http_instances' = http_instances + 1
              /\ radio' = radio
              /\ Goto(t, "start_active")
         ELSE /\ s_httpd' = FALSE
              /\ http_instances' = http_instances
              /\ radio' = esp_wifi_stop(radio)
              /\ tasks' = [tasks EXCEPT ![t].pc = "return", ![t].ret = "ESP_FAIL"]
    /\ last' = TaskStep
    /\ UNCHANGED <<nvs, s_provisioning_active, s_wifi_connected, s_sta_ip,
                   s_cache_mutex, s_initial_scan_done, s_cached_network_count,
                   loopVars, mqttVars, aborted, submitted, was_reset,
                   boot_opened, mutex_holder, probe_fail_run>>

\* s_provisioning_active = true; return ESP_OK;
TStartActive(t) ==
    /\ tasks[t].pc = "start_active"
    /\ s_provisioning_active' = TRUE
    /\ tasks' = [tasks EXCEPT ![t].pc = "return", ![t].ret = "ESP_OK"]
    /\ last' = TaskStep
    /\ UNCHANGED <<nvs, s_httpd, s_wifi_connected, s_sta_ip,
                   s_cache_mutex, s_initial_scan_done, s_cached_network_count, radio,
                   loopVars, mqttVars, aborted, submitted, was_reset,
                   boot_opened, mutex_holder, http_instances, probe_fail_run>>

\* wifi_provisioning_clear_and_restart: if (s_httpd) { httpd_stop(s_httpd);
\* s_httpd = NULL; }  httpd_stop returns once the server task has finished
\* the request it is handling
TClearHttpd(t) ==
    /\ tasks[t].pc = "clear_httpd"
    /\ s_httpd => tasks["httpd"].pc = "idle"
    /\ s_httpd' = FALSE
    /\ http_instances' = IF s_httpd /\ http_instances > 0
                         THEN http_instances - 1 ELSE http_instances
    /\ Goto(t, "clear_scan_done")
    /\ last' = TaskStep
    /\ UNCHANGED <<nvs, s_provisioning_active, s_wifi_connected, s_sta_ip,
                   s_cache_mutex, s_initial_scan_done, s_cached_network_count, radio,
                   loopVars, mqttVars, aborted, submitted, was_reset,
                   boot_opened, mutex_holder, probe_fail_run>>

\* s_initial_scan_done = false;
TClearScanDone(t) ==
    /\ tasks[t].pc = "clear_scan_done"
    /\ s_initial_scan_done' = FALSE
    /\ Goto(t, "clear_count")
    /\ last' = TaskStep
    /\ UNCHANGED <<nvs, s_httpd, s_provisioning_active, s_wifi_connected, s_sta_ip,
                   s_cache_mutex, s_cached_network_count, radio,
                   loopVars, mqttVars, aborted, submitted, was_reset,
                   boot_opened, mutex_holder, http_instances, probe_fail_run>>

\* s_cached_network_count = 0;
TClearCount(t) ==
    /\ tasks[t].pc = "clear_count"
    /\ s_cached_network_count' = 0
    /\ Goto(t, "clear_active")
    /\ last' = TaskStep
    /\ UNCHANGED <<nvs, s_httpd, s_provisioning_active, s_wifi_connected, s_sta_ip,
                   s_cache_mutex, s_initial_scan_done, radio,
                   loopVars, mqttVars, aborted, submitted, was_reset,
                   boot_opened, mutex_holder, http_instances, probe_fail_run>>

\* s_provisioning_active = false;
TClearActive(t) ==
    /\ tasks[t].pc = "clear_active"
    /\ s_provisioning_active' = FALSE
    /\ Goto(t, "clear_nvs")
    /\ last' = TaskStep
    /\ UNCHANGED <<nvs, s_httpd, s_wifi_connected, s_sta_ip,
                   s_cache_mutex, s_initial_scan_done, s_cached_network_count, radio,
                   loopVars, mqttVars, aborted, submitted, was_reset,
                   boot_opened, mutex_holder, http_instances, probe_fail_run>>

\* nvs_open and the six nvs_erase_key calls
TClearNvs(t) ==
    /\ tasks[t].pc = "clear_nvs"
    /\ \E openOk \in TaskEnv.opens :
         nvs' = [k \in Keys |-> IF openOk /\ k \in ProvKeys THEN 0 ELSE nvs[k]]
    /\ Goto(t, "clear_radio")
    /\ last' = TaskStep
    /\ UNCHANGED <<s_httpd, s_provisioning_active, s_wifi_connected, s_sta_ip,
                   s_cache_mutex, s_initial_scan_done, s_cached_network_count, radio,
                   loopVars, mqttVars, aborted, submitted, was_reset,
                   boot_opened, mutex_holder, http_instances, probe_fail_run>>

\* esp_wifi_stop(); s_wifi_connected = false; memset(s_sta_ip, ...);
\* vTaskDelay; then wifi_provisioning_start()
TClearRadio(t) ==
    /\ tasks[t].pc = "clear_radio"
    /\ radio' = esp_wifi_stop(radio)
    /\ s_wifi_connected' = FALSE
    /\ s_sta_ip' = 0
    /\ Goto(t, "start_check")
    /\ last' = TaskStep
    /\ UNCHANGED <<nvs, s_httpd, s_provisioning_active,
                   s_cache_mutex, s_initial_scan_done, s_cached_network_count,
                   loopVars, mqttVars, aborted, submitted, was_reset,
                   boot_opened, mutex_holder, http_instances, probe_fail_run>>

\* the statements of the calls, by whichever task is inside them
TCallStep ==
    \E t \in Tasks :
        \/ TStartCheck(t)
        \/ TStartInit(t)
        \/ TScanCreate(t)
        \/ TScanRadio(t)
        \/ TScanTake(t)
        \/ TScanCount(t)
        \/ TScanDone(t)
        \/ TScanGive(t)
        \/ TStartHttpd(t)
        \/ TStartActive(t)
        \/ TClearHttpd(t)
        \/ TClearScanDone(t)
        \/ TClearCount(t)
        \/ TClearActive(t)
        \/ TClearNvs(t)
        \/ TClearRadio(t)

\* the loop task --------------------------------------------------------
\* AP_MODE, not provisioned: the loop enters wifi_provisioning_start()
TLoopApModeStart ==
    /\ ~aborted /\ pc = "ap_start" /\ tasks["loop"].pc = "idle"
    /\ tasks' = [tasks EXCEPT !["loop"] = [TaskIdle EXCEPT !.pc = "start_check",
                                                           !.call = "start"]]
    /\ last' = TaskStep
    /\ UNCHANGED <<provVars, loopVars, mqttVars, aborted, submitted, was_reset,
                   boot_opened, mutex_holder, http_instances, probe_fail_run>>

\* WIFI_CONNECTED: as LoopWifiConnectedIn, but the second failed probe only
\* enters wifi_provisioning_clear_and_restart()
TLoopWifiConnected ==
    /\ ~aborted /\ pc = "top" /\ s_app_state = "APP_STATE_WIFI_CONNECTED"
    /\ \E openOk \in TaskEnv.opens :
       \E p \in OutcomesIf(wifi_provisioning_is_provisioned(nvs, openOk)
                             /\ ~verification_done, TaskEnv.probes) :
         IF ~wifi_provisioning_is_provisioned(nvs, openOk)
         THEN /\ verification_done' = FALSE
              /\ verification_retries' = 0
              /\ s_app_state' = "APP_STATE_AP_MODE"
              /\ UNCHANGED <<pc, tasks>>
         ELSE IF verification_done
         THEN /\ s_app_state' = "APP_STATE_CHECK_CERTIFICATES"
              /\ UNCHANGED <<verification_done, verification_retries, pc, tasks>>
         ELSE IF internet_verification_test(p) = "ESP_OK"
         THEN /\ verification_done' = TRUE
              /\ verification_retries' = 0
              /\ s_app_state' = "APP_STATE_CHECK_CERTIFICATES"
              /\ UNCHANGED <<pc, tasks>>
         ELSE IF VerificationExhausted(verification_retries + 1)
         THEN /\ verification_retries' = verification_retries + 1
              /\ pc' = "clearing"
              /\ tasks' = [tasks EXCEPT !["loop"] =
                              [TaskIdle EXCEPT !.pc = "clear_httpd", !.call = "clear"]]
              /\ UNCHANGED <<verification_done, s_app_state>>
         ELSE /\ verification_retries' = verification_retries + 1
              /\ UNCHANGED <<verification_done, s_app_state, pc, tasks>>
    /\ last' = TaskStep
    /\ UNCHANGED <<provVars, mqttVars, connection_attempted, mqtt_connect_retries,
                   aborted, submitted, was_reset, boot_opened, mutex_holder,
                   http_instances, probe_fail_run>>

\* the call returns to the loop: the AP_MODE case ends, or the
\* WIFI_CONNECTED case resets its statics and goes to AP_MODE
TLoopReturn ==
    /\ tasks["loop"].pc = "return"
    /\ IF tasks["loop"].call = "clear"
       THEN /\ verification_done' = FALSE
            /\ verification_retries' = 0
            /\ s_app_state' = "APP_STATE_AP_MODE"
       ELSE UNCHANGED <<verification_done, verification_retries, s_app_state>>
    /\ pc' = "top"
    /\ tasks' = [tasks EXCEPT !["loop"] = TaskIdle]
    /\ last' = TaskStep
    /\ UNCHANGED <<provVars, mqttVars, connection_attempted, mqtt_connect_retries,
                   aborted, submitted, was_reset, boot_opened, mutex_holder,
                   http_instances, probe_fail_run>>

\* the cases of the loop that do not enter these calls
TLoopOther ==
    \/ LoopInit
    \/ LoopCheckProvisioningIn(TaskEnv)
    \/ LoopApModeCheckIn(TaskEnv)
    \/ LoopWifiConnectingIn(TaskEnv)

\* the event task -------------------------------------------------------
TEvStaConnected == tasks["event"].pc = "idle" /\ EvStaConnected

TEvStaGotIp == tasks["event"].pc = "idle" /\ EvStaGotIpIn(TaskEnv)

\* WIFI_EVENT_STA_DISCONNECTED: the status is cleared, and on an
\* authentication failure the handler enters clear-and-restart
TEvStaDisconnected ==
    /\ ~aborted /\ tasks["event"].pc = "idle"
    /\ radio.started /\ radio.link \in {"connecting", "up", "ip"}
    /\ \E reason \in TaskEnv.reasons :
         tasks' = IF IsAuthFailure(reason)
                  THEN [tasks EXCEPT !["event"] =
                          [TaskIdle EXCEPT !.pc = "clear_httpd", !.call = "clear"]]
                  ELSE tasks
    /\ radio' = [radio EXCEPT !.link = "idle"]
    /\ s_wifi_connected' = FALSE
    /\ s_sta_ip' = 0
    /\ s_app_state' = wifi_sta_event_handler(s_app_state, "STA_DISCONNECTED")
    /\ last' = TaskStep
    /\ UNCHANGED <<nvs, s_httpd, s_provisioning_active,
                   s_cache_mutex, s_initial_scan_done, s_cached_network_count,
                   pc, connection_attempted, verification_done, verification_retries,
                   mqtt_connect_retries, mqttVars, aborted, submitted, was_reset,
                   boot_opened, mutex_holder, http_instances, probe_fail_run>>

TEventReturn ==
    /\ tasks["event"].pc = "return"
    /\ tasks' = [tasks EXCEPT !["event"] = TaskIdle]
    /\ last' = TaskStep
    /\ UNCHANGED <<provVars, loopVars, mqttVars, aborted, submitted, was_reset,
                   boot_opened, mutex_holder, http_instances, probe_fail_run>>

\* the HTTP server task -------------------------------------------------
\* a running server instance behind the access point takes a request
Serving ==
    /\ ~aborted /\ http_instances > 0 /\ radio.started /\ radio.mode = "APSTA"
    /\ tasks["httpd"].pc = "idle"

\* GET /local-wifi arrives: if (!s_initial_scan_done || force_refresh)
THttpScanBegin ==
    /\ Serving
    /\ \E force_refresh \in BOOLEAN :
         tasks' = [tasks EXCEPT !["httpd"] =
                     [TaskIdle EXCEPT !.call = "scan", !.force = force_refresh,
                         !.pc = IF ~s_initial_scan_done \/ force_refresh
                                THEN "scan_create" ELSE "h_take"]]
    /\ last' = TaskStep
    /\ UNCHANGED <<provVars, loopVars, mqttVars, aborted, submitted, was_reset,
                   boot_opened, mutex_holder, http_instances, probe_fail_run>>

\* if (ret != ESP_OK && !s_initial_scan_done): 500 scan_failed
THttpCheck ==
    /\ tasks["httpd"].pc = "h_check"
    /\ Goto("httpd", IF tasks["httpd"].ret # "ESP_OK" /\ ~s_initial_scan_done
                     THEN "h_send" ELSE "h_take")
    /\ last' = TaskStep
    /\ UNCHANGED <<provVars, loopVars, mqttVars, aborted, submitted, was_reset,
                   boot_opened, mutex_holder, http_instances, probe_fail_run>>

\* if (s_cache_mutex == NULL || xSemaphoreTake(.., 1 s) != pdTRUE): 500
THttpTake ==
    /\ tasks["httpd"].pc = "h_take"
    /\ IF s_cache_mutex /\ mutex_holder = "none"
       THEN mutex_holder' = "httpd" /\ Goto("httpd", "h_copy")
       ELSE mutex_holder' = mutex_holder /\ Goto("httpd", "h_send")
    /\ last' = TaskStep
    /\ UNCHANGED <<provVars, loopVars, mqttVars, aborted, submitted, was_reset,
                   boot_opened, http_instances, probe_fail_run>>

\* for (i = 0; i < s_cached_network_count; i++): n entries are copied out
THttpCopy ==
    /\ tasks["httpd"].pc = "h_copy"
    /\ tasks' = [tasks EXCEPT !["httpd"].pc = "h_count",
                              !["httpd"].n = s_cached_network_count]
    /\ last' = TaskStep
    /\ UNCHANGED <<provVars, loopVars, mqttVars, aborted, submitted, was_reset,
                   boot_opened, mutex_holder, http_instances, probe_fail_run>>

\* uint16_t count = s_cached_network_count;
THttpCount ==
    /\ tasks["httpd"].pc = "h_count"
    /\ tasks' = [tasks EXCEPT !["httpd"].pc = "h_give",
                              !["httpd"].ret = IF s_cached_network_count = tasks["httpd"].n
                                               THEN "ESP_OK" ELSE "torn"]
    /\ last' = TaskStep
    /\ UNCHANGED <<provVars, loopVars, mqttVars, aborted, submitted, was_reset,
                   boot_opened, mutex_holder, http_instances, probe_fail_run>>

\* xSemaphoreGive(s_cache_mutex);
THttpGive ==
    /\ tasks["httpd"].pc = "h_give"
    /\ mutex_holder' = IF mutex_holder = "httpd" THEN "none" ELSE mutex_holder
    /\ Goto("httpd", "h_send")
    /\ last' = TaskStep
    /\ UNCHANGED <<provVars, loopVars, mqttVars, aborted, submitted, was_reset,
                   boot_opened, http_instances, probe_fail_run>>

\* cJSON_Print, httpd_resp_sendstr, return
THttpSend ==
    /\ tasks["httpd"].pc = "h_send"
    /\ tasks' = [tasks EXCEPT !["httpd"] = TaskIdle]
    /\ last' = TaskStep
    /\ UNCHANGED <<provVars, loopVars, mqttVars, aborted, submitted, was_reset,
                   boot_opened, mutex_holder, http_instances, probe_fail_run>>

\* POST /provision with a complete body and no header, handled in one step
\* on the server task; wifi_provisioning_stop() stops the instance
TaskRequests ==
    {r \in CompleteRequests : r.hdr = NoHeader /\ r.saveFail = "none"}

THttpProvision ==
    /\ Serving
    /\ \E req \in TaskRequests :
         \E r \in {provision_handler(M, req)} :
           /\ SetM(r.m)
           /\ http_instances' = IF s_provisioning_active /\ s_httpd
                                THEN http_instances - 1 ELSE http_instances
    /\ last' = TaskStep
    /\ UNCHANGED <<loopVars, mqttVars, aborted, submitted, was_reset,
                   boot_opened, tasks, mutex_holder, probe_fail_run>>

NextTasks ==
    \/ TCallStep
    \/ TLoopOther
    \/ TLoopApModeStart
    \/ TLoopWifiConnected
    \/ TLoopReturn
    \/ TEvStaConnected
    \/ TEvStaGotIp
    \/ TEvStaDisconnected
    \/ TEventReturn
    \/ THttpScanBegin
    \/ THttpCheck
    \/ THttpTake
    \/ THttpCopy
    \/ THttpCount
    \/ THttpGive
    \/ THttpSend
    \/ THttpProvision

SpecTasks == Init /\ [][NextTasks]_vars

\* The interleavings of the loop task with the event task alone: the HTTP
\* server task handles a POST /provision only between two iterations of the
\* loop and while the event task is outside wifi_provisioning_clear_and_restart,
\* and no GET /local-wifi arrives.
InCall(t) == tasks[t].pc # "idle"

QuietProvision ==
    /\ pc = "top" /\ ~InCall("loop") /\ ~InCall("event")
    /\ THttpProvision

NextLoopEvent ==
    \/ TCallStep
    \/ TLoopOther
    \/ TLoopApModeStart
    \/ TLoopWifiConnected
    \/ TLoopReturn
    \/ TEvStaConnected
    \/ TEvStaGotIp
    \/ TEvStaDisconnected
    \/ TEventReturn
    \/ QuietProvision

SpecLoopEvent == Init /\ [][NextLoopEvent]_vars

\* ================================================================ claims
\* What each history variable records:
\*   last            the operation of the last step, its inputs and its result
\*   submitted       a submit was answered 200 and no clear-and-restart ran since
\*   was_reset       a clear-and-restart has run since the last boot
\*   probe_fail_run  the number (capped at 2) of consecutive failed probes

\* C1: after a successful submit, once a station-disconnect event with reason
\* 15 or 201..209 has been handled and the restart of the access point
\* returned success, the six credential keys are absent, the device reads as
\* unprovisioned and the listener (access point and HTTP server) is active.
C1_AuthFailureErasesAndRestarts ==
    [][(/\ submitted
        /\ last'.op = "sta_disconnected"
        /\ (last'.reason = 15 \/ (last'.reason >= 201 /\ last'.reason <= 209))
        /\ last'.ret = "ESP_OK")
       => (/\ \A k \in ProvKeys : nvs'[k] = 0
           /\ \A openOk \in BOOLEAN : ~wifi_provisioning_is_provisioned(nvs', openOk)
           /\ s_provisioning_active' /\ s_httpd'
           /\ radio'.started /\ radio'.mode = "APSTA")]_vars

\* C2: handling a station-disconnect event whose reason is neither 15 nor in
\* 201..209 leaves every credential key and the provisioned flag as they
\* were, runs no clear-and-restart, and neither stops nor restarts the
\* listener (server handle, active flag, radio mode and radio state).
C2_OtherDisconnectKeepsStore ==
    [][(/\ last'.op = "sta_disconnected"
        /\ last'.reason # 15
        /\ ~(last'.reason >= 201 /\ last'.reason <= 209))
       => (/\ \A k \in ProvKeys : nvs'[k] = nvs[k]
           /\ last'.clears = 0
           /\ s_httpd' = s_httpd
           /\ s_provisioning_active' = s_provisioning_active
           /\ radio'.started = radio.started /\ radio'.mode = radio.mode)]_vars

C2_Witness ==
    /\ last.op = "sta_disconnected" /\ last.reason = 200
    /\ nvs["provisioned"] = 1 /\ nvs["wifi_ssid"] # 0

C5_NoEndpointAfterSubmit ==
    submitted => (~s_httpd /\ ~s_provisioning_active)

\* C6: once the orchestrator state is ERROR, no loop iteration and no link or
\* address event changes it.
C6_ErrorIsAbsorbing ==
    [][(s_app_state = "APP_STATE_ERROR" /\ ~aborted)
       => s_app_state' = "APP_STATE_ERROR"]_vars

\* C7: in MQTT_CONNECTING a failed attempt adds one to the retry counter and
\* moves to ERROR exactly when the counter reaches 3, staying in
\* MQTT_CONNECTING otherwise; a timeout leaves the client stopped; a
\* successful connect sets the counter to 0 and moves to MQTT_CONNECTED.
C7_MessagingRetries ==
    [][(last'.op = "loop" /\ last'.mqtt # "-")
       => IF last'.mqtt = "connected"
          THEN /\ mqtt_connect_retries' = 0
               /\ s_app_state' = "APP_STATE_MQTT_CONNECTED"
          ELSE /\ mqtt_connect_retries' = mqtt_connect_retries + 1
               /\ s_app_state' = IF mqtt_connect_retries' = 3
                                 THEN "APP_STATE_ERROR"
                                 ELSE "APP_STATE_MQTT_CONNECTING"
               /\ last'.mqtt = "timeout" => ~s_mqtt_client']_vars

\* C8: the connectivity status becomes connected only in the step of a
\* got-IP event; a link-established event leaves the status and the address
\* as they were; every station-disconnect event leaves the status not
\* connected and the address empty.
C8_ConnectedOnlyOnGotIp ==
    [][/\ (s_wifi_connected' /\ ~s_wifi_connected) => last'.op = "got_ip"
       /\ last'.op = "sta_connected"
            => (s_wifi_connected' = s_wifi_connected /\ s_sta_ip' = s_sta_ip)
       /\ last'.op = "sta_disconnected" => (~s_wifi_connected' /\ s_sta_ip' = 0)
       /\ last'.op = "status"
            => (last'.status = "connected") = s_wifi_connected]_vars

C8_Witness ==
    /\ last.op = "got_ip" /\ s_wifi_connected /\ s_sta_ip # 0
    /\ radio.link = "ip"

\* C9: the orchestrator enters WIFI_CONNECTED only from WIFI_CONNECTING and
\* only when the connectivity status is connected.
C9_EntersConnectedOnlyWithAddress ==
    [][(s_app_state' = "APP_STATE_WIFI_CONNECTED"
        /\ s_app_state # "APP_STATE_WIFI_CONNECTED")
       => (s_app_state = "APP_STATE_WIFI_CONNECTING" /\ s_wifi_connected')]_vars

\* C10: a call of wifi_provisioning_start() made while provisioning is
\* active returns ESP_OK and changes neither the server handle, nor the
\* radio, nor the scan cache, nor any other state of the module.
C10_StartWhileActiveIsNoOp ==
    [][(last'.op = "ap_start" /\ s_provisioning_active)
       => (last'.ret = "ESP_OK" /\ UNCHANGED provVars)]_vars

C10_Witness ==
    /\ last.op = "ap_start" /\ last.pre_active /\ last.ret = "ESP_OK"
    /\ s_httpd /\ s_initial_scan_done

\* C11: in every reachable state the cached network count is at most 20,
\* whatever number of networks the scans reported and whatever refreshes,
\* stops and clear-and-restarts have run.
C11_CacheCountBounded == s_cached_network_count <= WIFI_SCAN_MAX_APS

\* a scan that saw 21 networks has filled the cache
C11_Witness ==
    /\ s_initial_scan_done /\ s_cached_network_count = WIFI_SCAN_MAX_APS
    /\ s_httpd

\* C12: GET /local-wifi?refresh=true, issued when a snapshot exists and
\* answered after the refresh scan failed, responds 200 with exactly the
\* entries of the snapshot that existed before and with cached:true.
\* With a snapshot in the cache the handler scans only for refresh=true.
\* (Read in the claim's favour: the requests whose response the handler
\* could build, the cache mutex being free and the serialisation succeeding.)
C12_FailedRefreshServesStaleAsCached ==
    [][(/\ last'.op = "scan"
        /\ s_initial_scan_done
        /\ last'.scan = "failed"
        /\ last'.err \notin {"cache_busy", "json_error"})
       => (/\ last'.code = 200 /\ last'.list
           /\ last'.count = s_cached_network_count
           /\ s_cached_network_count' = s_cached_network_count
           /\ last'.cached)]_vars

\* C13: GET /local-wifi, answered when the cache holds no snapshot (none was
\* taken since provisioning was last stopped or reset) and the scan the
\* handler runs fails, responds 500 scan_failed without a network list.
C13_NoCacheAndScanFailsIs500 ==
    [][(/\ last'.op = "scan"
        /\ ~s_initial_scan_done
        /\ last'.scan = "failed")
       => (/\ last'.code = 500 /\ last'.err = "scan_failed"
           /\ ~last'.list)]_vars

C13_Witness ==
    /\ last.op = "scan" /\ last.scan = "failed" /\ ~s_initial_scan_done
    /\ last.code = 500 /\ last.err = "scan_failed" /\ s_httpd

\* C14: after a successful submit the status endpoint reports "provisioning"
\* as long as no address is assigned, and "connected" with the assigned
\* address once one is; it never reports "disconnected" in between. The
\* status is what status_handler answers from the state of the module.
C14_StatusAfterSubmit ==
    submitted =>
        IF s_wifi_connected
        THEN /\ status_handler(M).status = "connected"
             /\ status_handler(M).ip = s_sta_ip /\ s_sta_ip # 0
        ELSE status_handler(M).status = "provisioning"

\* C15: a submit answered 200 whose request had no Authorization header
\* stores the ssid, password, device id and provisioning token of the
\* request, sets the provisioned flag and leaves the bearer-token key as it
\* was: absent before, absent after.
C15_SubmitWithoutHeaderKeepsBearer ==
    [][(last'.op = "provision" /\ last'.code = 200 /\ last'.hdr = "none")
       => (/\ nvs'["wifi_ssid"] = last'.body["ssid"]
           /\ nvs'["wifi_pass"] = last'.body["password"]
           /\ nvs'["device_id"] = last'.body["device_id"]
           /\ nvs'["prov_token"] = last'.body["provisioning_token"]
           /\ nvs'["provisioned"] = 1
           /\ nvs'["bearer_token"] = nvs["bearer_token"])]_vars

C15_Witness ==
    /\ last.op = "provision" /\ last.code = 200 /\ last.hdr = "none"
    /\ nvs["wifi_ssid"] # 0 /\ nvs["prov_token"] # 0 /\ nvs["provisioned"] = 1
    /\ nvs["bearer_token"] = 0

\* C16: a submit with all four members persists the record and sets the
\* flag, then sends the success response, then tears the server down; the
\* station connection attempt that follows it is configured with the ssid
\* and the password that this submit stored.
C16_SubmitOrderAndStationConfig ==
    [][/\ (last'.op = "provision" /\ last'.code = 200)
            => (/\ last'.effects = <<"save", "respond", "stop">>
                /\ nvs'["wifi_ssid"] = last'.body["ssid"]
                /\ nvs'["wifi_pass"] = last'.body["password"]
                /\ nvs'["provisioned"] = 1
                /\ ~s_httpd' /\ ~s_provisioning_active')
       /\ (submitted /\ last'.op = "loop" /\ connection_attempted'
              /\ ~connection_attempted)
            => (/\ radio'.mode = "STA" /\ radio'.link = "connecting"
                /\ radio'.ssid = nvs["wifi_ssid"]
                /\ radio'.pass = nvs["wifi_pass"])]_vars

\* C17: an iteration in SUBMIT_CSR whose identity-issuance call fails leaves
\* the orchestrator in SUBMIT_CSR and counts nothing (no loop counter or
\* flag changes, so the next iteration retries the same way); the
\* orchestrator goes from SUBMIT_CSR to MQTT_CONNECTING only in an iteration
\* whose call succeeded.
C17_CsrFailureRetriesUncounted ==
    [][/\ (last'.op = "loop" /\ last'.csr = "ESP_FAIL")
            => (/\ s_app_state' = "APP_STATE_SUBMIT_CSR"
                /\ UNCHANGED <<pc, connection_attempted, verification_done,
                                verification_retries, mqtt_connect_retries>>)
       /\ (s_app_state = "APP_STATE_SUBMIT_CSR"
              /\ s_app_state' = "APP_STATE_MQTT_CONNECTING")
            => (last'.op = "loop" /\ last'.csr = "ESP_OK")]_vars

C17_Witness ==
    /\ last.op = "loop" /\ last.from = "APP_STATE_SUBMIT_CSR"
    /\ last.csr = "ESP_FAIL" /\ s_app_state = "APP_STATE_SUBMIT_CSR"
    /\ nvs["device_cert"] # 0 /\ nvs["ca_cert"] = 0

\* C18: every transition of the orchestrator into ERROR starts in
\* MQTT_CONNECTING with the messaging retry counter at 3 or more after the
\* step; no other state and no other failure leads to ERROR.
C18_ErrorOnlyFromMessagingCap ==
    [][(s_app_state' = "APP_STATE_ERROR" /\ s_app_state # "APP_STATE_ERROR")
       => (/\ s_app_state = "APP_STATE_MQTT_CONNECTING"
           /\ mqtt_connect_retries' >= MAX_MQTT_RETRIES)]_vars

\* C19: an iteration in WIFI_CONNECTED that finds the provisioned flag not
\* set runs no reachability probe and no clear-and-restart, sets the probe
\* bookkeeping back (verification not done, retry counter 0) and moves the
\* orchestrator to AP_MODE.
C19_ConnectedButUnprovisionedGoesToApMode ==
    [][(/\ last'.op = "loop" /\ s_app_state = "APP_STATE_WIFI_CONNECTED"
        /\ nvs["provisioned"] # 1)
       => (/\ last'.probe = "-" /\ last'.clears = 0
           /\ verification_done' = FALSE /\ verification_retries' = 0
           /\ s_app_state' = "APP_STATE_AP_MODE"
           /\ UNCHANGED provVars)]_vars

\* an auth-failure reset ran while the orchestrator was in WIFI_CONNECTED
C19_Witness ==
    /\ last.op = "loop" /\ last.from = "APP_STATE_WIFI_CONNECTED"
    /\ nvs["provisioned"] = 0 /\ s_app_state = "APP_STATE_AP_MODE"
    /\ s_provisioning_active /\ ~verification_done /\ verification_retries = 0

\* C20: in AP_MODE with the provisioned flag not set, an iteration calls
\* wifi_provisioning_start() and leaves the listener active if the call
\* succeeded, and the state is AP_MODE after it whether the call succeeded
\* or failed; the orchestrator leaves AP_MODE only to WIFI_CONNECTING and
\* only with the provisioned flag set.
C20_ApModeKeepsListener ==
    [][/\ (last'.op = "loop" /\ s_app_state = "APP_STATE_AP_MODE"
              /\ nvs["provisioned"] # 1)
            => (pc' = "ap_start" /\ s_app_state' = "APP_STATE_AP_MODE")
       /\ (last'.op = "ap_start")
            => (/\ s_app_state' = s_app_state
                /\ last'.ret = "ESP_OK" => (s_provisioning_active' /\ s_httpd'))
       /\ (s_app_state = "APP_STATE_AP_MODE" /\ ~aborted
              /\ s_app_state' # "APP_STATE_AP_MODE")
            => (/\ s_app_state' = "APP_STATE_WIFI_CONNECTING"
                /\ nvs["provisioned"] = 1)]_vars

\* C23: an iteration in MQTT_CONNECTED that finds the messaging client not
\* connected stops the client (no handle, not connected) and moves the
\* orchestrator to MQTT_CONNECTING; an iteration that finds it connected
\* leaves the orchestrator in MQTT_CONNECTED and the client as it is.
C23_OperationalLivenessCheck ==
    [][(last'.op = "loop" /\ s_app_state = "APP_STATE_MQTT_CONNECTED")
       => IF ~s_mqtt_connected
          THEN /\ ~s_mqtt_client' /\ ~s_mqtt_connected'
               /\ s_app_state' = "APP_STATE_MQTT_CONNECTING"
          ELSE /\ s_app_state' = "APP_STATE_MQTT_CONNECTED"
               /\ UNCHANGED mqttVars]_vars

\* the connection was lost in MQTT_CONNECTED and the iteration stopped the client
C23_Witness ==
    /\ last.op = "loop" /\ last.from = "APP_STATE_MQTT_CONNECTED"
    /\ s_app_state = "APP_STATE_MQTT_CONNECTING"
    /\ ~s_mqtt_client /\ ~s_mqtt_connected

C25_CachedFlagTellsRefresh ==
    [][(last'.op = "scan" /\ last'.code = 200)
       => (/\ last'.scan \in {"-", "failed"} => last'.cached
           /\ (last'.scan = "ESP_OK" /\ s_initial_scan_done) => ~last'.cached)]_vars

\* C26: no failure of a call made by the provisioning subsystem (radio
\* initialisation, AP configuration, scan, server start, persistence, probe,
\* CSR submission, messaging connect) aborts the process, also when
\* wifi_provisioning_start() runs again inside clear-and-restart.
C26_NoFailureAborts == ~aborted

\* C30: the connectivity status (connected flag and station address) changes
\* only in the steps of the link and address event callbacks; no iteration
\* of the loop and no HTTP handler changes it.
C30_StatusWrittenByEventsOnly ==
    [][(~aborted /\ (s_wifi_connected' # s_wifi_connected \/ s_sta_ip' # s_sta_ip))
       => last'.op \in {"sta_connected", "got_ip", "sta_disconnected"}]_vars

\* C27: the station connect attempt issued by the loop in WIFI_CONNECTING is
\* configured with the ssid and the password held in the store: the
\* password it applies is the value saved under the key "wifi_pass".
C27_AttemptUsesStoredPassword ==
    [][(last'.op = "loop" /\ connection_attempted' /\ ~connection_attempted)
       => (/\ radio'.link = "connecting"
           /\ radio'.ssid = nvs["wifi_ssid"]
           /\ radio'.pass = nvs["wifi_pass"])]_vars

\* C28: in every visit to WIFI_CONNECTING the station connect attempt is
\* issued on the first iteration of the visit (the iteration that follows
\* the one that entered the state) and none is issued on the later ones.
\* Read in the claim's favour: an iteration that could not read the ssid
\* issues no attempt and leaves the attempt to the next iteration.
C28_OneAttemptPerVisit ==
    [][(last'.op = "loop" /\ s_app_state = "APP_STATE_WIFI_CONNECTING")
       => IF last.op = "loop" /\ last.from # "APP_STATE_WIFI_CONNECTING"
          THEN connection_attempted'
                 => (~connection_attempted /\ radio'.link = "connecting")
          ELSE connection_attempted => radio' = radio]_vars

C21_RecoversAfterReset ==
    (submitted /\ was_reset) ~> (s_app_state = "APP_STATE_WIFI_CONNECTED")

C33_SaveFailedLeavesUnprovisioned ==
    [][(last'.op = "provision" /\ last'.err = "save_failed")
       => /\ \A openOk \in BOOLEAN : ~wifi_provisioning_is_provisioned(nvs', openOk)
          /\ s_httpd' /\ s_provisioning_active'
          /\ radio' = radio /\ s_app_state' = s_app_state]_vars

\* C34: whenever a clear-and-restart returned success the provisioned flag
\* and the five credential keys are absent from the store.
C34_ClearedWhenRestartSucceeds ==
    [][(last'.clears = 1 /\ last'.ret = "ESP_OK")
       => \A k \in ProvKeys : nvs'[k] = 0]_vars

\* C36: whenever the orchestrator is in CHECK_CERTIFICATES, SUBMIT_CSR,
\* MQTT_CONNECTING or MQTT_CONNECTED the provisioned flag is set and the
\* device id and the provisioning token are in the store.
C36_IdentityStatesAreProvisioned ==
    s_app_state \in {"APP_STATE_CHECK_CERTIFICATES", "APP_STATE_SUBMIT_CSR",
                     "APP_STATE_MQTT_CONNECTING", "APP_STATE_MQTT_CONNECTED"}
    => (nvs["provisioned"] = 1 /\ nvs["device_id"] # 0 /\ nvs["prov_token"] # 0)

\* C37: every step of the loop from WIFI_CONNECTED to CHECK_CERTIFICATES is
\* made by an iteration whose own probe succeeded (an iteration with a
\* successful probe leaves WIFI_CONNECTED at once, so a success can only
\* belong to the current visit if it is the success of that iteration).
C37_ProbeSucceedsInEachVisit ==
    [][(/\ last'.op = "loop" /\ s_app_state = "APP_STATE_WIFI_CONNECTED"
        /\ s_app_state' = "APP_STATE_CHECK_CERTIFICATES")
       => last'.probe = "ok"]_vars

\* C39: a clear-and-restart erases the six provisioning keys and changes
\* no other key, so the two certificates stay; and a CHECK_CERTIFICATES
\* iteration after a reset and a new submit, with both certificates still
\* stored, goes to MQTT_CONNECTING (no CSR submission).
C39_ResetKeepsCertificates ==
    [][/\ last'.clears = 1
          => /\ \A k \in ProvKeys : nvs'[k] = 0
             /\ \A k \in CertKeys : nvs'[k] = nvs[k]
       /\ (/\ last'.op = "loop" /\ s_app_state = "APP_STATE_CHECK_CERTIFICATES"
           /\ was_reset /\ submitted
           /\ nvs["device_cert"] # 0 /\ nvs["ca_cert"] # 0)
          => s_app_state' = "APP_STATE_MQTT_CONNECTING"]_vars

C31_MutexOnlyAroundCopy ==
    /\ mutex_holder \in Tasks \cup {"none"}
    /\ \A t \in Tasks :
         /\ mutex_holder = t => tasks[t].pc \in CopyInPcs \cup CopyOutPcs
         /\ tasks[t].pc \in ScanIoPcs \cup HttpIoPcs \cup {"idle", "return"}
               => mutex_holder # t

\* the server task sends the three entries it copied out, the mutex given
\* back, while another task waits for its own radio scan
C31_Witness ==
    /\ tasks["httpd"].pc = "h_send" /\ tasks["httpd"].n = 3
    /\ tasks["httpd"].ret = "ESP_OK"
    /\ mutex_holder = "none"
    /\ \E t \in Tasks \ {"httpd"} : tasks[t].pc = "scan_radio"

\* C35: under any interleaving of the loop task with the event task at most
\* one HTTP server instance runs at any time, and, whenever neither task is
\* inside wifi_provisioning_start or wifi_provisioning_clear_and_restart, a
\* provisioning marked active has the server handle set and the radio
\* started in access-point mode.
C35_OneServerAndActiveMeansServing ==
    /\ http_instances <= 1
    /\ (~InCall("loop") /\ ~InCall("event") /\ s_provisioning_active) =>
          (s_httpd /\ radio.started /\ radio.mode = "APSTA")

\* C38: while the server task holds the mutex for its copy-out, no step
\* changes the cached count or the populated flag.
C38_ReaderSeesStableCache ==
    [][(mutex_holder = "httpd" /\ tasks["httpd"].pc \in CopyOutPcs)
          => UNCHANGED <<s_cached_network_count, s_initial_scan_done>>]_vars
====
